---- MODULE Spec2Model ----
(***************************************************************************)
(* A model of mapreader.download: the SheetDownloader index (catalog,      *)
(* derivation steps, queries, downloads) of sheet_downloader.py and the    *)
(* tile conversions of downloader_utils.py.                                *)
(*                                                                         *)
(* Representation.  A Python str is a sequence of one-character strings.   *)
(* A dict is a TLA+ function over its keys, so that "key in d" is          *)
(* key \in DOMAIN d.  Longitudes and latitudes are integers in thousandths *)
(* of a degree.  A Polygon is its axis-aligned rectangle                   *)
(* [minx, miny, maxx, maxy] (every catalog sheet is a rectangle), a Point  *)
(* is [x, y], a LineString is a pair of points.  A feature of the catalog  *)
(* is named by its position in self.features: found_queries and the        *)
(* selected lists hold positions, as the Python lists hold references.     *)
(***************************************************************************)
EXTENDS Integers, Sequences, FiniteSets, TLC

\* Largest zoom level passed to get_grid_bb.
MaxZoom == 2
\* Longest found_queries an appending query may build.
MaxFound == 3
\* Most data rows the metadata file may hold.
MaxRows == 2

\* The most rows self.annotations is let grow to.
MaxAnnotations == 2

\* The most rows self.reviewed is let grow to.
MaxReviewed == 3

------------------------------------------------------------------------------
(* Text *)

UpperCase == <<"A","B","C","D","E","F","G","H","I","J","K","L","M",
               "N","O","P","Q","R","S","T","U","V","W","X","Y","Z">>
LowerCase == <<"a","b","c","d","e","f","g","h","i","j","k","l","m",
               "n","o","p","q","r","s","t","u","v","w","x","y","z">>
Digits == <<"0","1","2","3","4","5","6","7","8","9">>

IsDigit(c) == c \in { Digits[i] : i \in 1..10 }

DigitValue(c) == (CHOOSE i \in 1..10 : Digits[i] = c) - 1

ToLower == [c \in { UpperCase[i] : i \in 1..26 } |->
              LowerCase[CHOOSE i \in 1..26 : UpperCase[i] = c]]

\* re.IGNORECASE: both sides are compared in lower case.
Lower(c) == IF c \in DOMAIN ToLower THEN ToLower[c] ELSE c

\* The text matches the literal pattern at position i, ignoring case.
MatchesAt(pattern, text, i) ==
  /\ i + Len(pattern) - 1 <= Len(text)
  /\ \A j \in 1..Len(pattern) : Lower(text[i + j - 1]) = Lower(pattern[j])

\* bool(re.search(string, text, re.IGNORECASE)) for a literal string.
re_search(string, text) ==
  \E i \in 1..(Len(text) + 1) : MatchesAt(string, text, i)

\* str.split(sep=".")[-1]: the text after the last "." (all of it when none).
LastDot(text) ==
  IF \E i \in 1..Len(text) : text[i] = "."
  THEN CHOOSE i \in 1..Len(text) :
         /\ text[i] = "."
         /\ \A j \in (i + 1)..Len(text) : text[j] # "."
  ELSE 0

split_last(text) == SubSeq(text, LastDot(text) + 1, Len(text))

RECURSIVE DecimalValue(_)
DecimalValue(ds) ==
  IF ds = <<>> THEN 0
  ELSE 10 * DecimalValue(SubSeq(ds, 1, Len(ds) - 1)) + DigitValue(ds[Len(ds)])

\* eval() of a text: a decimal literal evaluates to its value; an empty text,
\* a text with a non-digit, and a literal with a leading zero that is not
\* all zeros are a SyntaxError (or NameError) in Python 3.
eval_ok(ds) ==
  /\ ds # <<>>
  /\ \A i \in 1..Len(ds) : IsDigit(ds[i])
  /\ (ds[1] = "0" => \A i \in 1..Len(ds) : ds[i] = "0")

eval(ds) == DecimalValue(ds)

RECURSIVE NatToText(_)
NatToText(n) ==
  IF n < 10 THEN <<Digits[n + 1]>>
  ELSE NatToText(n \div 10) \o <<Digits[(n % 10) + 1]>>

\* str() of an int.
IntToText(n) == IF n < 0 THEN <<"-">> \o NatToText(0 - n) ELSE NatToText(n)

------------------------------------------------------------------------------
(* Geometry (shapely) *)

\* Catalog and query coordinates are whole degrees: multiples of CoordScale.
CoordScale == 1000

\* shapely.geometry.box(min_x, min_y, max_x, max_y)
box(min_x, min_y, max_x, max_y) ==
  [minx |-> min_x, miny |-> min_y, maxx |-> max_x, maxy |-> max_y]

\* Polygon.bounds: the least and greatest coordinate of the ring, whichever
\* way round the corners were given to box.
bounds(polygon) ==
  << IF polygon.minx <= polygon.maxx THEN polygon.minx ELSE polygon.maxx,
     IF polygon.miny <= polygon.maxy THEN polygon.miny ELSE polygon.maxy,
     IF polygon.minx <= polygon.maxx THEN polygon.maxx ELSE polygon.minx,
     IF polygon.miny <= polygon.maxy THEN polygon.maxy ELSE polygon.miny >>

\* The closed rectangles share a point.
RectsMeet(a, b) ==
  /\ a.minx <= b.maxx /\ b.minx <= a.maxx
  /\ a.miny <= b.maxy /\ b.miny <= a.maxy

\* A containment test that accepts an overlap.
within_or_overlapping(a, b) == RectsMeet(a, b)

\* a.within(b), a of positive area: every point of a is a point of b.
within(a, b) ==
  /\ b.minx <= a.minx /\ a.maxx <= b.maxx
  /\ b.miny <= a.miny /\ a.maxy <= b.maxy

\* a.intersects(b) of two polygons.
intersects(a, b) == RectsMeet(a, b)

\* polygon.contains(point): the point is in the interior of the polygon.
contains(polygon, point) ==
  /\ polygon.minx < point.x /\ point.x < polygon.maxx
  /\ polygon.miny < point.y /\ point.y < polygon.maxy

\* The point is in the closed polygon.
PointMeets(polygon, point) ==
  /\ polygon.minx <= point.x /\ point.x <= polygon.maxx
  /\ polygon.miny <= point.y /\ point.y <= polygon.maxy

\* Which side of the line p -> q the corner c lies on (in whole degrees).
Cross(p, q, c) ==
    ((q.x - p.x) \div CoordScale) * ((c.y - p.y) \div CoordScale)
  - ((q.y - p.y) \div CoordScale) * ((c.x - p.x) \div CoordScale)

Corners(r) ==
  { [x |-> r.minx, y |-> r.miny], [x |-> r.minx, y |-> r.maxy],
    [x |-> r.maxx, y |-> r.miny], [x |-> r.maxx, y |-> r.maxy] }

Min2(a, b) == IF a <= b THEN a ELSE b
Max2(a, b) == IF a >= b THEN a ELSE b

\* polygon.intersects(line): the segment and the closed rectangle share a
\* point, i.e. no axis separates them (the x axis, the y axis, the normal of
\* the segment).
line_intersects(polygon, line) ==
  LET p == line[1]
      q == line[2]
      seg == box(Min2(p.x, q.x), Min2(p.y, q.y), Max2(p.x, q.x), Max2(p.y, q.y))
  IN  /\ RectsMeet(polygon, seg)
      /\ ~ (\A c \in Corners(polygon) : Cross(p, q, c) > 0)
      /\ ~ (\A c \in Corners(polygon) : Cross(p, q, c) < 0)

\* unary_union(polygon_list): the union, kept as the set of its parts.
unary_union(polygon_list) == { polygon_list[i] : i \in 1..Len(polygon_list) }

\* A test that finds every polygon inside the catalog's bounds.
disjoint_polygon_never(merged, polygon) == FALSE

\* merged_polygon.disjoint(geometry), by the kind of the geometry.
disjoint_polygon(merged, polygon) == \A r \in merged : ~ intersects(r, polygon)
disjoint_point(merged, point) == \A r \in merged : ~ PointMeets(r, point)
disjoint_line(merged, line) == \A r \in merged : ~ line_intersects(r, line)

\* create_polygon_from_latlons(min_lat, min_lon, max_lat, max_lon)
create_polygon_from_latlons(min_lat, min_lon, max_lat, max_lon) ==
  box(min_lon, min_lat, max_lon, max_lat)

\* create_line_from_latlons((lat1, lon1), (lat2, lon2))
create_line_from_latlons(lat1_lon1, lat2_lon2) ==
  << [x |-> lat1_lon1[2], y |-> lat1_lon1[1]],
     [x |-> lat2_lon2[2], y |-> lat2_lon2[1]] >>

------------------------------------------------------------------------------
(* Tile conversions (downloader_utils.py) *)

\* int(): truncation toward zero of the quotient a / b, b > 0.
Trunc(a, b) == IF a >= 0 THEN a \div b ELSE 0 - ((0 - a) \div b)

Pow2(z) == 2 ^ z

\* The Mercator fraction (1 - asinh(tan(radians(lat))) / pi) / 2.0 of the
\* double lat, as the double computes it, in units of 2^-FracBits (truncated;
\* exact for every zoom <= FracBits since n is a power of two).  Tabulated
\* for the latitudes of the model: whole degrees and tile corners.
FracBits == 20

MercatorFraction ==
  ( -90000 :> 6870130 @@ -85051 :> 1048576 @@ -85000 :> 1046858 @@
    -82676 :> 983040 @@ -79171 :> 917504 @@ -74020 :> 851968 @@
    -66513 :> 786432 @@ -60000 :> 744069 @@ -55777 :> 720896 @@
    -40980 :> 655360 @@ -30000 :> 615959 @@ -21943 :> 589824 @@
    0 :> 524288 @@ 21943 :> 458752 @@ 30000 :> 432616 @@ 40980 :> 393216 @@
    55777 :> 327680 @@ 60000 :> 304506 @@ 66513 :> 262143 @@
    74020 :> 196608 @@ 79171 :> 131071 @@ 82676 :> 65535 @@ 85000 :> 1717 @@
    85051 :> 0 @@ 90000 :> -5821554 )

\* degrees(atan(sinh(pi * (1 - 2 * y / n)))) in thousandths of a degree, by
\* k = y * 2^TableBits / n, for the tile rows 0..n of every zoom <= TableBits.
TableBits == 4

TileLatitude ==
  ( 0 :> 85051 @@ 1 :> 82676 @@ 2 :> 79171 @@ 3 :> 74020 @@ 4 :> 66513 @@
    5 :> 55777 @@ 6 :> 40980 @@ 7 :> 21943 @@ 8 :> 0 @@ 9 :> -21943 @@
    10 :> -40980 @@ 11 :> -55777 @@ 12 :> -66513 @@ 13 :> -74020 @@
    14 :> -79171 @@ 15 :> -82676 @@ 16 :> -85051 )

\* data_structures.Coordinate(lat, lon)
Coordinate(lat, lon) == [lat |-> lat, lon |-> lon]

\* data_structures.GridIndex(x, y, z)
GridIndex(x, y, z) == [x |-> x, y |-> y, z |-> z]

\* The two cells kept as given: the first as lower and the second as upper
\* corner.
GridBoundingBox_as_given(cell1, cell2) ==
  [lower_corner |-> cell1, upper_corner |-> cell2]

\* data_structures.GridBoundingBox(cell1, cell2): the rectangle of tiles
\* between two cells of one zoom level, whose lower corner has the smaller
\* x and y and whose upper corner the greater.
GridBoundingBox(cell1, cell2) ==
  [ lower_corner |-> GridIndex(Min2(cell1.x, cell2.x), Min2(cell1.y, cell2.y), cell1.z),
    upper_corner |-> GridIndex(Max2(cell1.x, cell2.x), Max2(cell1.y, cell2.y), cell2.z) ]

\* The assertion left out: every zoom level passes.
zoom_ok_unasserted(z) == TRUE

\* assert z >= 0 of both private conversions.
zoom_ok(z) == z >= 0

\* _get_index_from_coordinate(lon, lat, z) -> (x, y), for z >= 0
_get_index_from_coordinate(lon, lat, z) ==
  LET n == Pow2(z)
      x == Trunc((lon + 180 * CoordScale) * n, 360 * CoordScale)
      y == Trunc(MercatorFraction[lat] * n, Pow2(FracBits))
  IN  <<x, y>>

\* _get_coordinate_from_index(x, y, z) -> (lon, lat), for z >= 0
_get_coordinate_from_index(x, y, z) ==
  LET n == Pow2(z)
      lon == (x * 360 * CoordScale) \div n - 180 * CoordScale
      lat == TileLatitude[y * Pow2(TableBits - z)]
  IN  <<lon, lat>>

get_index_from_coordinate(coordinate, zoom) ==
  LET xy == _get_index_from_coordinate(coordinate.lon, coordinate.lat, zoom)
  IN  GridIndex(xy[1], xy[2], zoom)

get_coordinate_from_index(grid_index) ==
  LET lonlat == _get_coordinate_from_index(grid_index.x, grid_index.y, grid_index.z)
  IN  Coordinate(lonlat[2], lonlat[1])

get_grid_bb_from_polygon(polygon, zoom_level) ==
  LET b == bounds(polygon)
      start == Coordinate(b[2], b[3])
      end == Coordinate(b[4], b[1])
      start_idx == get_index_from_coordinate(start, zoom_level)
      end_idx == get_index_from_coordinate(end, zoom_level)
  IN  GridBoundingBox(start_idx, end_idx)

get_polygon_from_grid_bb(grid_bb) ==
  LET lower_corner == get_coordinate_from_index(grid_bb.lower_corner)
      upper_corner == get_coordinate_from_index(grid_bb.upper_corner)
  IN  create_polygon_from_latlons(lower_corner.lat, lower_corner.lon,
                                  upper_corner.lat, upper_corner.lon)

------------------------------------------------------------------------------
(* The catalog (metadata.json) *)

Deg(d) == d * CoordScale

\* A feature record as json.load returns it: a dotted id, a MultiPolygon
\* geometry (the list of its parts) and the properties.
RawFeature(id, geometry, image, url, title) ==
  [ id |-> id, geometry |-> geometry,
    properties |-> [IMAGE |-> image, IMAGEURL |-> url, WFS_TITLE |-> title] ]

NorthWest == box(Deg(-90), Deg(0), Deg(0), Deg(60))
NorthEast == box(Deg(0), Deg(0), Deg(90), Deg(60))
SouthWest == box(Deg(-90), Deg(-60), Deg(0), Deg(0))
Whole     == box(Deg(-90), Deg(-60), Deg(90), Deg(60))

\* Titled "Published 19": one date.
SheetA ==
  RawFeature(<<"s",".","1">>, <<NorthWest>>, <<"a">>, <<"u","a">>,
             <<"P","u","b","l","i","s","h","e","d"," ","1","9">>)
\* A sheet of two parts: the first part is the one used.  Titled
\* "published 18 to 20": two decimal runs after the word.
SheetB ==
  RawFeature(<<"s",".","2">>, <<NorthEast, SouthWest>>, <<"b">>, <<"u","b">>,
             <<"p","u","b","l","i","s","h","e","d"," ","1","8"," ","t","o"," ","2","0">>)
\* Same trailing id number and same IMAGE as SheetA.  Titled "Map 7": no
\* "Published".
SheetC ==
  RawFeature(<<"t",".","1">>, <<SouthWest>>, <<"a">>, <<"u","c">>,
             <<"M","a","p"," ","7">>)
SheetD ==
  RawFeature(<<"s",".","1","4">>, <<Whole>>, <<"d">>, <<"u","d">>,
             <<"P","u","b","l","i","s","h","e","d"," ","1","9">>)

\* The catalogs a SheetDownloader is constructed on.
Catalogs == { <<SheetA, SheetB, SheetC>>, <<SheetD, SheetA>>, <<SheetB, SheetA>> }

------------------------------------------------------------------------------
(* State *)

VARIABLES
  features,         \* self.features: the catalog, each feature with its derived fields
  polygons,         \* self.polygons
  grid_bbs,         \* self.grid_bbs
  wfs_id_nos,       \* self.wfs_id_nos
  published_dates,  \* self.published_dates
  found_queries,    \* self.found_queries: positions in self.features
  merged_polygon,   \* self.merged_polygon: <<>> is None, <<u>> the union u
  files,            \* the IMAGE names n whose map_<n>.png exists under path_save
  metadata_csv,     \* the metadata file under path_save
  call,             \* the last call: its name, arguments and outcome
  selected,         \* the feature list the last download call selected (positions)
  loader,           \* the AnnotationsLoader: its column names and its two tables
  log               \* what the last download call did, in order

vars == << features, polygons, grid_bbs, wfs_id_nos, published_dates,
           found_queries, merged_polygon, files, metadata_csv, call, selected, log, loader >>

Positions == 1..Len(features)

\* d[key] = value, as an assignment to a dict.
SetKey(d, key, value) == (key :> value) @@ d

HasKey(d, key) == key \in DOMAIN d

\* The outcome of a call: "ok", or the exception it raised.
Call(op, args, outcome) == [op |-> op, args |-> args, outcome |-> outcome]

\* Python's None, where a column name is expected.
None == "None"

\* AnnotationsLoader.__init__: two empty tables and no column names. A table is
\* the sequence of its rows; a row has its index label (name) and its cells.
AnnotationsLoader_init ==
  [ annotations |-> <<>>, reviewed |-> <<>>, id_col |-> None,
    patch_paths_col |-> None, label_col |-> None, unique_labels |-> <<>> ]

Init ==
  /\ features \in Catalogs
  /\ polygons = FALSE
  /\ grid_bbs = FALSE
  /\ wfs_id_nos = FALSE
  /\ published_dates = FALSE
  /\ found_queries = <<>>
  /\ merged_polygon = <<>>
  /\ files = {}
  /\ metadata_csv = [exists |-> FALSE, lines |-> <<>>]
  /\ call = Call("__init__", <<>>, "ok")
  /\ selected = <<>>
  /\ log = <<>>
  /\ loader = AnnotationsLoader_init

------------------------------------------------------------------------------
(* Derivation steps *)

\* The loop of a derivation step over self.features: stepped[i] is feature
\* i after the body, oks[i] whether the body runs on it without raising.  The
\* features before the first one that raises keep their update.
FirstRaise(oks) ==
  IF \A i \in 1..Len(oks) : oks[i] THEN Len(oks) + 1
  ELSE CHOOSE i \in 1..Len(oks) : ~ oks[i] /\ \A j \in 1..(i - 1) : oks[j]

ForEach(fs, stepped, oks) ==
  LET first == FirstRaise(oks)
  IN  [i \in 1..Len(fs) |-> IF i < first THEN stepped[i] ELSE fs[i]]

Completes(oks) == FirstRaise(oks) > Len(oks)

\* feature["polygon"] = shape(feature["geometry"]).geoms[0]
polygon_of(feature) == SetKey(feature, "polygon", feature.geometry[1])

polygon_ok(feature) == Len(feature.geometry) >= 1

\* get_polygons() on the features fs
polygons_ok(fs) == [i \in 1..Len(fs) |-> polygon_ok(fs[i])]

features_with_polygons(fs) ==
  ForEach(fs, [i \in 1..Len(fs) |-> polygon_of(fs[i])], polygons_ok(fs))

get_polygons ==
  /\ features' = features_with_polygons(features)
  /\ polygons' = TRUE
  /\ call' = Call("get_polygons", <<>>, "ok")
  /\ selected' = <<>>
  /\ log' = <<>>
  /\ UNCHANGED << loader, grid_bbs, wfs_id_nos, published_dates, found_queries,
                  merged_polygon, files, metadata_csv >>

\* A loop body that keeps the box a feature already has.
grid_bb_of_kept(feature, zoom_level) ==
  IF "grid_bb" \in DOMAIN feature THEN feature
  ELSE ("grid_bb" :> get_grid_bb_from_polygon(feature.polygon, zoom_level)) @@ feature

\* The body of get_grid_bb's loop: the grid bounding box of the feature's
\* polygon at the zoom level.
grid_bb_of(feature, zoom_level) ==
  LET b == bounds(feature.polygon)
      start == Coordinate(b[2], b[3])
      end == Coordinate(b[4], b[1])
      start_idx == get_index_from_coordinate(start, zoom_level)
      end_idx == get_index_from_coordinate(end, zoom_level)
  IN  SetKey(feature, "grid_bb", GridBoundingBox(start_idx, end_idx))

\* The zoom levels a caller passes; a negative one fails the assertion.
ZoomLevels == (0 - 1)..MaxZoom

get_grid_bb(zoom_level) ==
  LET fs == IF polygons THEN features ELSE features_with_polygons(features)
      oks == [i \in 1..Len(fs) |-> zoom_ok(zoom_level)]
      stepped == [i \in 1..Len(fs) |-> grid_bb_of(fs[i], zoom_level)]
  IN  /\ features' = ForEach(fs, stepped, oks)
      /\ polygons' = TRUE
      /\ grid_bbs' = IF Completes(oks) THEN TRUE ELSE grid_bbs
      /\ call' = Call("get_grid_bb", <<zoom_level>>,
                      IF Completes(oks) THEN "ok" ELSE "AssertionError")
      /\ selected' = <<>>
      /\ log' = <<>>
      /\ UNCHANGED << loader, wfs_id_nos, published_dates, found_queries,
                      merged_polygon, files, metadata_csv >>

\* The body of extract_wfs_id_nos's loop.
wfs_id_no_of(feature) ==
  SetKey(feature, "wfs_id_no", eval(split_last(feature.id)))

wfs_id_no_ok(feature) == eval_ok(split_last(feature.id))

wfs_id_nos_ok(fs) == [i \in 1..Len(fs) |-> wfs_id_no_ok(fs[i])]

features_with_wfs_id_nos(fs) ==
  ForEach(fs, [i \in 1..Len(fs) |-> wfs_id_no_of(fs[i])], wfs_id_nos_ok(fs))

extract_wfs_id_nos ==
  /\ features' = features_with_wfs_id_nos(features)
  /\ wfs_id_nos' = IF Completes(wfs_id_nos_ok(features)) THEN TRUE ELSE wfs_id_nos
  /\ call' = Call("extract_wfs_id_nos", <<>>,
                  IF Completes(wfs_id_nos_ok(features)) THEN "ok" ELSE "SyntaxError")
  /\ selected' = <<>>
  /\ log' = <<>>
  /\ UNCHANGED << loader, polygons, grid_bbs, published_dates, found_queries,
                  merged_polygon, files, metadata_csv >>

PublishedWord == <<"P","u","b","l","i","s","h","e","d">>

\* Where ".*" may end for a match of r"Published.*[\D]([\d]+)" that starts
\* at s: "." does not match a newline; the next character is a non-digit and
\* the one after it a digit.
MatchEnds(title, s) ==
  { q \in (s + Len(PublishedWord))..(Len(title) - 1) :
      /\ \A j \in (s + Len(PublishedWord))..(q - 1) : title[j] # "\n"
      /\ ~ IsDigit(title[q])
      /\ IsDigit(title[q + 1]) }

HasMatch(title, s) ==
  MatchesAt(PublishedWord, title, s) /\ MatchEnds(title, s) # {}

SetMax(S) == CHOOSE x \in S : \A y \in S : y <= x
SetMin(S) == CHOOSE x \in S : \A y \in S : x <= y

\* The end of the decimal run that starts at i.
RunEnd(title, i) ==
  SetMax({ e \in i..Len(title) : \A j \in i..e : IsDigit(title[j]) })

\* re.findall(r"Published.*[\D]([\d]+)", title, flags=re.IGNORECASE) from
\* position from on: the leftmost match, ".*" greedy, then the rest.
RECURSIVE findall_published(_, _)
findall_published(title, from) ==
  LET starts == { s \in from..Len(title) : HasMatch(title, s) }
  IN  IF starts = {} THEN <<>>
      ELSE LET s == SetMin(starts)
               q == SetMax(MatchEnds(title, s))
               e == RunEnd(title, q + 1)
           IN  <<SubSeq(title, q + 1, e)>> \o findall_published(title, e + 1)

\* The body of extract_published_dates's loop: published_date is <<n>> for
\* the int n and <<>> for the empty list.
published_date_of(feature) ==
  LET published_date == findall_published(feature.properties.WFS_TITLE, 1)
      value == IF Len(published_date) > 0 THEN <<eval(published_date[1])>> ELSE <<>>
  IN  SetKey(feature, "properties",
             SetKey(feature.properties, "published_date", value))

published_date_ok(feature) ==
  LET published_date == findall_published(feature.properties.WFS_TITLE, 1)
  IN  Len(published_date) > 0 => eval_ok(published_date[1])

published_dates_ok(fs) == [i \in 1..Len(fs) |-> published_date_ok(fs[i])]

features_with_published_dates(fs) ==
  ForEach(fs, [i \in 1..Len(fs) |-> published_date_of(fs[i])], published_dates_ok(fs))

extract_published_dates ==
  /\ features' = features_with_published_dates(features)
  /\ published_dates' =
       IF Completes(published_dates_ok(features)) THEN TRUE ELSE published_dates
  /\ call' = Call("extract_published_dates", <<>>,
                  IF Completes(published_dates_ok(features)) THEN "ok" ELSE "SyntaxError")
  /\ selected' = <<>>
  /\ log' = <<>>
  /\ UNCHANGED << loader, polygons, grid_bbs, wfs_id_nos, found_queries,
                  merged_polygon, files, metadata_csv >>

\* unary_union of the features' polygons.
merged_polygon_of(fs) ==
  <<unary_union([i \in 1..Len(fs) |-> fs[i].polygon])>>

get_merged_polygon ==
  LET fs == IF polygons THEN features ELSE features_with_polygons(features)
  IN  /\ features' = fs
      /\ polygons' = TRUE
      /\ merged_polygon' = merged_polygon_of(fs)
      /\ call' = Call("get_merged_polygon", <<>>, "ok")
      /\ selected' = <<>>
      /\ log' = <<>>
      /\ UNCHANGED << loader, grid_bbs, wfs_id_nos, published_dates, found_queries,
                      files, metadata_csv >>

\* get_minmax_latlon(): prints the bounds of the union, computing it first
\* when it is None.
get_minmax_latlon ==
  LET fs == IF merged_polygon = <<>> /\ ~ polygons
            THEN features_with_polygons(features) ELSE features
  IN  /\ features' = fs
      /\ polygons' = (polygons \/ merged_polygon = <<>>)
      /\ merged_polygon' =
           IF merged_polygon = <<>> THEN merged_polygon_of(fs) ELSE merged_polygon
      /\ call' = Call("get_minmax_latlon", <<>>, "ok")
      /\ selected' = <<>>
      /\ log' = <<>>
      /\ UNCHANGED << loader, grid_bbs, wfs_id_nos, published_dates, found_queries,
                      files, metadata_csv >>

Derive ==
  \/ get_polygons
  \/ \E zoom_level \in ZoomLevels : get_grid_bb(zoom_level)
  \/ extract_wfs_id_nos
  \/ extract_published_dates
  \/ get_merged_polygon
  \/ get_minmax_latlon

SpecDerive == Init /\ [][Derive]_vars

------------------------------------------------------------------------------
(* Queries *)

\* An argument as the caller passes it: its Python type and its value.
Arg(type, value) == [type |-> type, value |-> value]

SeqToSet(q) == { q[i] : i \in 1..Len(q) }

\* "feature not in self.found_queries" is false: some entry of the list
\* equals the feature (dict equality).
feature_in(fs, i, found) == \E k \in 1..Len(found) : fs[found[k]] = fs[i]

\* "map_polygon not in self.found_queries" is false: some entry of the list,
\* a feature dict, equals the polygon.  A shapely geometry and a dict are
\* never equal.
polygon_in(fs, map_polygon, found) == \E k \in 1..Len(found) : FALSE

\* The loop of a query over self.features from position i on: matched[j]
\* says whether the predicate holds of feature j, stop is the position whose
\* body raises (Len + 1 when none), by_polygon that the membership test is
\* made with the polygon.
RECURSIVE append_matches(_, _, _, _, _, _)
append_matches(fs, matched, i, stop, found, by_polygon) ==
  IF i > Len(fs) \/ i >= stop THEN found
  ELSE LET present == IF by_polygon THEN polygon_in(fs, fs[i].polygon, found)
                      ELSE feature_in(fs, i, found)
           next == IF matched[i] /\ ~ present THEN Append(found, i) ELSE found
       IN  append_matches(fs, matched, i + 1, stop, next, by_polygon)

\* "if not append: self.found_queries = []"
start_of(append) == IF append THEN found_queries ELSE <<>>

WfsIdArgs ==
  { Arg("list", <<1>>), Arg("list", <<2, 14>>), Arg("list", <<9>>),
    Arg("int", <<1>>), Arg("str", <<>>) }

\* An int argument n is held as <<n>>: "requested_maps = [wfs_ids]".
requested_maps_of(wfs_ids) == wfs_ids.value

wfs_matched(fs, wfs_ids) ==
  [i \in 1..Len(fs) |-> fs[i].wfs_id_no \in SeqToSet(requested_maps_of(wfs_ids))]

query_map_sheets_by_wfs_ids(wfs_ids, append) ==
  LET fs == IF wfs_id_nos THEN features ELSE features_with_wfs_id_nos(features)
      extracted == wfs_id_nos \/ Completes(wfs_id_nos_ok(features))
      outcome == IF ~ extracted THEN "SyntaxError"
                 ELSE IF wfs_ids.type \notin {"list", "int"} THEN "ValueError"
                 ELSE "ok"
      found == IF outcome = "ok"
               THEN append_matches(fs, wfs_matched(fs, wfs_ids), 1, Len(fs) + 1,
                                   start_of(append), FALSE)
               ELSE found_queries
  IN  /\ Len(found) <= MaxFound
      /\ features' = fs
      /\ wfs_id_nos' = extracted
      /\ found_queries' = found
      /\ call' = Call("query_map_sheets_by_wfs_ids", <<wfs_ids, append>>, outcome)
      /\ selected' = <<>>
      /\ log' = <<>>
      /\ UNCHANGED << loader, polygons, grid_bbs, published_dates, merged_polygon,
                      files, metadata_csv >>

QueryPolygons ==
  { Arg("Polygon", create_polygon_from_latlons(Deg(0), Deg(-90), Deg(60), Deg(0))),
    Arg("Polygon", create_polygon_from_latlons(Deg(0), Deg(-90), Deg(60), Deg(90))),
    Arg("Polygon", create_polygon_from_latlons(Deg(15), Deg(-45), Deg(45), Deg(45))),
    Arg("Polygon", create_polygon_from_latlons(Deg(0), Deg(0), Deg(0), Deg(0))),
    Arg("Polygon", create_polygon_from_latlons(Deg(60), Deg(120), Deg(85), Deg(150))),
    Arg("tuple", box(0, 0, 0, 0)) }

\* The (polygon, mode) arguments of the polygon query and download.
PolygonArgs ==
  { <<p, m>> : p \in { q \in QueryPolygons : q.type = "Polygon" }, m \in { "within", "intersects" } }
  \cup { <<p, "touches">> : p \in { q \in QueryPolygons : q.value = NorthWest } }
  \cup { <<p, "within">> : p \in { q \in QueryPolygons : q.type # "Polygon" } }

\* A call that does not look at the mode it is given.
mode_check_left_out(mode) == "ok"

\* "if mode not in ["within","intersects"]: raise NotImplementedError"
mode_check(mode) ==
  IF mode \in {"within", "intersects"} THEN "ok" ELSE "NotImplementedError"

polygon_matched(fs, polygon, mode) ==
  [i \in 1..Len(fs) |->
     IF mode = "within" THEN within(fs[i].polygon, polygon)
     ELSE IF mode = "intersects" THEN intersects(fs[i].polygon, polygon)
     ELSE FALSE]

query_map_sheets_by_polygon(polygon, mode, append) ==
  LET outcome == IF polygon.type # "Polygon" THEN "ValueError"
                 ELSE mode_check(mode)
      fs == IF outcome = "ok" /\ ~ polygons
            THEN features_with_polygons(features) ELSE features
      found == IF outcome = "ok"
               THEN append_matches(fs, polygon_matched(fs, polygon.value, mode), 1,
                                   Len(fs) + 1, start_of(append), mode = "within")
               ELSE found_queries
  IN  /\ Len(found) <= MaxFound
      /\ features' = fs
      /\ polygons' = (polygons \/ outcome = "ok")
      /\ found_queries' = found
      /\ call' = Call("query_map_sheets_by_polygon", <<polygon, mode, append>>, outcome)
      /\ selected' = <<>>
      /\ log' = <<>>
      /\ UNCHANGED << loader, grid_bbs, wfs_id_nos, published_dates, merged_polygon,
                      files, metadata_csv >>

\* shapely.geometry.Point(coords)
Point(coords) == [x |-> coords[1], y |-> coords[2]]

QueryCoords ==
  { Arg("tuple", <<Deg(-45), Deg(30)>>), Arg("tuple", <<Deg(0), Deg(0)>>),
    Arg("tuple", <<Deg(45), Deg(-30)>>), Arg("tuple", <<Deg(150), Deg(0)>>),
    Arg("list", <<Deg(-45), Deg(30)>>) }

coords_matched(fs, coords) ==
  [i \in 1..Len(fs) |-> contains(fs[i].polygon, coords)]

query_map_sheets_by_coordinates(coords, append) ==
  LET outcome == IF coords.type # "tuple" THEN "ValueError" ELSE "ok"
      fs == IF outcome = "ok" /\ ~ polygons
            THEN features_with_polygons(features) ELSE features
      found == IF outcome = "ok"
               THEN append_matches(fs, coords_matched(fs, Point(coords.value)), 1,
                                   Len(fs) + 1, start_of(append), FALSE)
               ELSE found_queries
  IN  /\ Len(found) <= MaxFound
      /\ features' = fs
      /\ polygons' = (polygons \/ outcome = "ok")
      /\ found_queries' = found
      /\ call' = Call("query_map_sheets_by_coordinates", <<coords, append>>, outcome)
      /\ selected' = <<>>
      /\ log' = <<>>
      /\ UNCHANGED << loader, grid_bbs, wfs_id_nos, published_dates, merged_polygon,
                      files, metadata_csv >>

QueryLines ==
  { Arg("LineString", create_line_from_latlons(<<Deg(30), Deg(-45)>>, <<Deg(30), Deg(45)>>)),
    Arg("LineString", create_line_from_latlons(<<Deg(-30), Deg(30)>>, <<Deg(30), Deg(90)>>)),
    Arg("LineString", create_line_from_latlons(<<Deg(-60), Deg(30)>>, <<Deg(-30), Deg(60)>>)),
    Arg("LineString", create_line_from_latlons(<<Deg(60), Deg(120)>>, <<Deg(85), Deg(150)>>)),
    Arg("tuple", <<>>) }

line_matched(fs, line) ==
  [i \in 1..Len(fs) |-> line_intersects(fs[i].polygon, line)]

query_map_sheets_by_line(line, append) ==
  LET outcome == IF line.type # "LineString" THEN "ValueError" ELSE "ok"
      fs == IF outcome = "ok" /\ ~ polygons
            THEN features_with_polygons(features) ELSE features
      found == IF outcome = "ok"
               THEN append_matches(fs, line_matched(fs, line.value), 1,
                                   Len(fs) + 1, start_of(append), FALSE)
               ELSE found_queries
  IN  /\ Len(found) <= MaxFound
      /\ features' = fs
      /\ polygons' = (polygons \/ outcome = "ok")
      /\ found_queries' = found
      /\ call' = Call("query_map_sheets_by_line", <<line, append>>, outcome)
      /\ selected' = <<>>
      /\ log' = <<>>
      /\ UNCHANGED << loader, grid_bbs, wfs_id_nos, published_dates, merged_polygon,
                      files, metadata_csv >>

\* Python values, for the walk through a feature record and for str():
\* a value carries its type; a dict also the order of its keys.
PyNone == [t |-> "None"]
PyStr(text) == [t |-> "str", v |-> text]
PyInt(n) == [t |-> "int", v |-> n]
PyList(items) == [t |-> "list", v |-> items]
PyDict(keys, items) == [t |-> "dict", keys |-> keys, v |-> items]
PyObject(class, text) == [t |-> class, v |-> text]

\* The keys of d among order, in that order.
RECURSIVE KeysIn(_, _)
KeysIn(d, order) ==
  IF order = <<>> THEN <<>>
  ELSE (IF HasKey(d, Head(order)) THEN <<Head(order)>> ELSE <<>>)
       \o KeysIn(d, Tail(order))

PyRect(r) == PyList(<<PyInt(r.minx \div CoordScale), PyInt(r.miny \div CoordScale),
                      PyInt(r.maxx \div CoordScale), PyInt(r.maxy \div CoordScale)>>)

PyGridIndex(g) ==
  PyDict(<<"x", "y", "z">>, [x |-> PyInt(g.x), y |-> PyInt(g.y), z |-> PyInt(g.z)])

\* The feature record as a Python value: the catalog's keys first, then the
\* derived ones.
PyFeature(f) ==
  LET props == f.properties
      pkeys == KeysIn(props, <<"IMAGE", "IMAGEURL", "WFS_TITLE", "published_date">>)
      pitems == [k \in SeqToSet(pkeys) |->
                   IF k = "published_date"
                   THEN (IF props[k] = <<>> THEN PyList(<<>>) ELSE PyInt(props[k][1]))
                   ELSE PyStr(props[k])]
      fkeys == KeysIn(f, <<"id", "geometry", "properties", "polygon", "grid_bb", "wfs_id_no">>)
      fitems == [k \in SeqToSet(fkeys) |->
                   CASE k = "id" -> PyStr(f.id)
                     [] k = "geometry" ->
                          PyDict(<<"type", "coordinates">>,
                                 [type |-> PyStr(<<"M","u","l","t","i","P","o","l","y","g","o","n">>),
                                  coordinates |->
                                    PyList([i \in 1..Len(f.geometry) |-> PyRect(f.geometry[i])])])
                     [] k = "properties" -> PyDict(pkeys, pitems)
                     [] k = "polygon" -> PyObject("Polygon", PyRect(f.polygon))
                     [] k = "grid_bb" ->
                          PyObject("GridBoundingBox",
                                   PyList(<<PyGridIndex(f.grid_bb.lower_corner),
                                            PyGridIndex(f.grid_bb.upper_corner)>>))
                     [] k = "wfs_id_no" -> PyInt(f.wfs_id_no)]
  IN  PyDict(fkeys, fitems)

\* The spelling of the keys.
KeyText ==
    "id" :> <<"i","d">>
    @@ "geometry" :> <<"g","e","o","m","e","t","r","y">>
    @@ "properties" :> <<"p","r","o","p","e","r","t","i","e","s">>
    @@ "polygon" :> <<"p","o","l","y","g","o","n">>
    @@ "grid_bb" :> <<"g","r","i","d","_","b","b">>
    @@ "wfs_id_no" :> <<"w","f","s","_","i","d","_","n","o">>
    @@ "IMAGE" :> <<"I","M","A","G","E">>
    @@ "IMAGEURL" :> <<"I","M","A","G","E","U","R","L">>
    @@ "WFS_TITLE" :> <<"W","F","S","_","T","I","T","L","E">>
    @@ "published_date" :> <<"p","u","b","l","i","s","h","e","d","_","d","a","t","e">>
    @@ "type" :> <<"t","y","p","e">>
    @@ "coordinates" :> <<"c","o","o","r","d","i","n","a","t","e","s">>
    @@ "lower_corner" :> <<"l","o","w","e","r","_","c","o","r","n","e","r">>
    @@ "upper_corner" :> <<"u","p","p","e","r","_","c","o","r","n","e","r">>
    @@ "x" :> <<"x">>
    @@ "y" :> <<"y">>
    @@ "z" :> <<"z">>

RECURSIVE repr(_)
RECURSIVE JoinRepr(_, _)
RECURSIVE JoinItems(_, _, _)

\* repr() of the items of a list from position i on, separated by ", ".
JoinRepr(items, i) ==
  IF i > Len(items) THEN <<>>
  ELSE (IF i > 1 THEN <<",", " ">> ELSE <<>>) \o repr(items[i]) \o JoinRepr(items, i + 1)

\* 'key': repr(value) of the items of a dict from key i on.
JoinItems(keys, items, i) ==
  IF i > Len(keys) THEN <<>>
  ELSE (IF i > 1 THEN <<",", " ">> ELSE <<>>)
       \o <<"'">> \o KeyText[keys[i]] \o <<"'", ":", " ">>
       \o repr(items[keys[i]]) \o JoinItems(keys, items, i + 1)

repr(value) ==
  CASE value.t = "None" -> <<"N", "o", "n", "e">>
    [] value.t = "str" -> <<"'">> \o value.v \o <<"'">>
    [] value.t = "int" -> IntToText(value.v)
    [] value.t = "list" -> <<"[">> \o JoinRepr(value.v, 1) \o <<"]">>
    [] value.t = "dict" -> <<"{">> \o JoinItems(value.keys, value.v, 1) \o <<"}">>
    [] value.t = "Polygon" -> <<"P","O","L","Y","G","O","N"," ">> \o repr(value.v)
    [] value.t = "GridBoundingBox" -> <<"G","r","i","d","B","o","u","n","d","i","n","g","B","o","x">> \o repr(value.v)

\* str(value): a str is itself, anything else its repr.
str(value) == IF value.t = "str" THEN value.v ELSE repr(value)

\* d.get(key) of a dict d: the value, or None when the key is absent.
get(d, key) == IF HasKey(d.v, key) THEN d.v[key] ELSE PyNone

\* reduce(lambda d, key: d.get(key), keys, feature): the value reached, or
\* the AttributeError of a .get on a value that is no dict.
RECURSIVE reduce_get(_, _)
reduce_get(d, keys) ==
  IF keys = <<>> THEN [raised |-> FALSE, value |-> d]
  ELSE IF d.t # "dict" THEN [raised |-> TRUE, value |-> PyNone]
  ELSE reduce_get(get(d, Head(keys)), Tail(keys))

\* field_to_search of every feature: reduce_get of the feature record.
fields_to_search(fs, keys) ==
  [i \in 1..Len(fs) |-> reduce_get(PyFeature(fs[i]), keys)]

\* The body of the loop of the string query and download:
\* match = bool(re.search(string, str(field_to_search), re.IGNORECASE))
string_match(field_to_search, string) ==
  ~ field_to_search.raised /\ re_search(string, str(field_to_search.value))

string_matched(fields, string) ==
  [i \in DOMAIN fields |-> string_match(fields[i], string)]

\* The first position whose walk raises, Len + 1 when none does.
string_stop(fields) ==
  IF \A i \in DOMAIN fields : ~ fields[i].raised THEN Len(fields) + 1
  ELSE SetMin({ i \in DOMAIN fields : fields[i].raised })

\* The (string, keys) arguments of the string query and download.  A str
\* key k is held as <<k>>, None as <<>>.
StringArgs ==
  { <<Arg("str", <<"A">>), Arg("None", <<>>)>>,
    <<Arg("str", <<"A">>), Arg("list", <<"properties", "IMAGE">>)>>,
    <<Arg("str", <<"1">>), Arg("str", <<"id">>)>>,
    <<Arg("str", <<"n", "o">>), Arg("list", <<"properties", "SHEET">>)>>,
    <<Arg("str", <<"z">>), Arg("list", <<"properties", "SHEET">>)>>,
    <<Arg("str", <<"A">>), Arg("list", <<"SHEET", "IMAGE">>)>>,
    <<Arg("int", <<>>), Arg("None", <<>>)>>,
    <<Arg("str", <<"A">>), Arg("int", <<>>)>> }

\* "if keys is None: keys = []; if isinstance(keys, str): keys = [keys]"
keys_of(keys) == IF keys.type = "None" THEN <<>> ELSE keys.value

string_check(string, keys) ==
  IF string.type # "str" THEN "ValueError"
  ELSE IF keys.type \notin {"None", "str", "list"} THEN "ValueError"
  ELSE "ok"

query_map_sheets_by_string(string, keys, append) ==
  LET checked == string_check(string, keys)
      fields == fields_to_search(features, keys_of(keys))
      stop == string_stop(fields)
      outcome == IF checked # "ok" THEN checked
                 ELSE IF stop <= Len(features) THEN "AttributeError"
                 ELSE "ok"
      found == IF checked = "ok"
               THEN append_matches(features, string_matched(fields, string.value),
                                   1, stop, start_of(append), FALSE)
               ELSE found_queries
  IN  /\ Len(found) <= MaxFound
      /\ found_queries' = found
      /\ call' = Call("query_map_sheets_by_string", <<string, keys, append>>, outcome)
      /\ selected' = <<>>
      /\ log' = <<>>
      /\ UNCHANGED << loader, features, polygons, grid_bbs, wfs_id_nos, published_dates,
                      merged_polygon, files, metadata_csv >>

Query ==
  \/ \E wfs_ids \in WfsIdArgs, append \in BOOLEAN :
       query_map_sheets_by_wfs_ids(wfs_ids, append)
  \/ \E pm \in PolygonArgs, append \in BOOLEAN :
       query_map_sheets_by_polygon(pm[1], pm[2], append)
  \/ \E coords \in QueryCoords, append \in BOOLEAN :
       query_map_sheets_by_coordinates(coords, append)
  \/ \E line \in QueryLines, append \in BOOLEAN :
       query_map_sheets_by_line(line, append)
  \/ \E sk \in StringArgs, append \in BOOLEAN :
       query_map_sheets_by_string(sk[1], sk[2], append)

SpecQuery == Init /\ [][Query]_vars

------------------------------------------------------------------------------
(* Downloads *)

\* map_name = str("map_" + feature["properties"]["IMAGE"])
map_name_of(feature) == <<"m","a","p","_">> \o feature.properties.IMAGE

\* f"{path_save}{map_name}.png", as a name under path_save
png_of(map_name) == map_name \o <<".","p","n","g">>

\* A check that never finds the file.
_check_map_sheet_exists_never(feature, on_disk) == FALSE

\* _check_map_sheet_exists(feature)
_check_map_sheet_exists(feature, on_disk) == png_of(map_name_of(feature)) \in on_disk

\* A merger that reports its result and writes no file.
merge_reporting_only(on_disk, map_name, success) == on_disk

\* TileMerger.merge(grid_bb, map_name): the files under path_save after it.
\* It writes map_<name>.png when it succeeds and nothing when it fails.
merge(on_disk, map_name, success) ==
  IF success THEN on_disk \cup {png_of(map_name)} ELSE on_disk

\* What a download call does, in order: pos is the position in the selected
\* list, sheet the feature.
Event(ev, pos, sheet, ok) == [ev |-> ev, pos |-> pos, sheet |-> sheet, ok |-> ok]

\* A download that clears the cache before it merges the tiles.
_download_map_events_clearing_first(pos, sheet, success) ==
  << [ev |-> "download_tiles", pos |-> pos, sheet |-> sheet, ok |-> TRUE],
     [ev |-> "rmtree", pos |-> pos, sheet |-> sheet, ok |-> TRUE],
     [ev |-> "merge", pos |-> pos, sheet |-> sheet, ok |-> success] >>

\* A download that clears the cache only when the merge succeeded.
_download_map_events_keeping_failed(pos, sheet, success) ==
  << [ev |-> "download_tiles", pos |-> pos, sheet |-> sheet, ok |-> TRUE],
     [ev |-> "merge", pos |-> pos, sheet |-> sheet, ok |-> success] >>
  \o (IF success
      THEN << [ev |-> "rmtree", pos |-> pos, sheet |-> sheet, ok |-> TRUE] >>
      ELSE <<>>)

\* _download_map(feature): fetch the tiles, merge them, clear the cache.
_download_map_events(pos, sheet, success) ==
  << Event("download_tiles", pos, sheet, TRUE),
     Event("merge", pos, sheet, success),
     Event("rmtree", pos, sheet, TRUE) >>

\* _save_metadata(feature), once the published dates are extracted.
_save_metadata(feature) ==
  LET grid_bb == feature.grid_bb
      lower_corner == get_coordinate_from_index(grid_bb.lower_corner)
      upper_corner == get_coordinate_from_index(grid_bb.upper_corner)
      coords == <<lower_corner.lon, lower_corner.lat, upper_corner.lon, upper_corner.lat>>
  IN  [ name |-> png_of(map_name_of(feature)),
        url |-> feature.properties.IMAGEURL,
        coordinates |-> coords,
        published_date |-> feature.properties.published_date,
        grid_bb |-> grid_bb ]

\* A line of the metadata file: the header, or a row of the data frame with
\* its index.
HeaderLine ==
  [ kind |-> "header", index |-> 0, name |-> <<"name">>, url |-> <<"url">>,
    coordinates |-> <<0, 0, 0, 0>>, published_date |-> <<>>,
    grid_bb |-> GridBoundingBox(GridIndex(0, 0, 0), GridIndex(0, 0, 0)) ]

RowLine(index, row) ==
  [ kind |-> "row", index |-> index, name |-> row.name, url |-> row.url,
    coordinates |-> row.coordinates, published_date |-> row.published_date,
    grid_bb |-> row.grid_bb ]

\* metadata_df.to_csv(out_filepath, sep="\t", mode="a", header=not exists)
to_csv(csv, metadata_to_save, mode, header) ==
  LET old == IF mode = "a" THEN csv.lines ELSE <<>>
      rows == [i \in 1..Len(metadata_to_save) |-> RowLine(i - 1, metadata_to_save[i])]
  IN  [ exists |-> TRUE,
        lines |-> old \o (IF header THEN <<HeaderLine>> ELSE <<>>) \o rows ]

\* The data frame written with mode="w" in place of mode="a".
_create_metadata_df_truncating(csv, metadata_to_save) ==
  to_csv(csv, metadata_to_save, "w", TRUE)

\* _create_metadata_df(metadata_to_save, out_filepath)
_create_metadata_df(csv, metadata_to_save) ==
  to_csv(csv, metadata_to_save, "a", ~ csv.exists)

\* The state of _download_map_sheets's loop.
Batch(fs, dates, on_disk, metadata_to_save, events, raised) ==
  [ fs |-> fs, dates |-> dates, files |-> on_disk,
    metadata_to_save |-> metadata_to_save, log |-> events, raised |-> raised ]

\* A loop body that saves the metadata of a feature whatever its merge
\* returned.
download_step_saving_failures(b, list, pos, overwrite, success) ==
  LET sheet == list[pos]
      feature == b.fs[sheet]
  IN  IF ~ overwrite /\ _check_map_sheet_exists(feature, b.files)
      THEN [b EXCEPT !.log = Append(@, Event("skip", pos, sheet, TRUE))]
      ELSE LET on_disk == merge(b.files, map_name_of(feature), success)
               events == b.log \o _download_map_events(pos, sheet, success)
               fs == IF b.dates THEN b.fs ELSE features_with_published_dates(b.fs)
           IN  Batch(fs, TRUE, on_disk,
                     Append(b.metadata_to_save, _save_metadata(fs[sheet])),
                     Append(events, Event("save_metadata", pos, sheet, TRUE)),
                     FALSE)

\* The body of the loop for the feature at position pos of the list:
\* skipped when its file exists and overwrite is not set; else downloaded,
\* and on success its metadata saved (which first extracts the published
\* dates when that has not been done, and may raise there).
download_step(b, list, pos, overwrite, success) ==
  LET sheet == list[pos]
      feature == b.fs[sheet]
  IN  IF ~ overwrite /\ _check_map_sheet_exists(feature, b.files)
      THEN [b EXCEPT !.log = Append(@, Event("skip", pos, sheet, TRUE))]
      ELSE LET on_disk == merge(b.files, map_name_of(feature), success)
               events == b.log \o _download_map_events(pos, sheet, success)
               extract == success /\ ~ b.dates
               fs == IF extract THEN features_with_published_dates(b.fs) ELSE b.fs
               raises == extract /\ ~ Completes(published_dates_ok(b.fs))
           IN  IF ~ success THEN Batch(b.fs, b.dates, on_disk, b.metadata_to_save, events, FALSE)
               ELSE IF raises THEN Batch(fs, b.dates, on_disk, b.metadata_to_save, events, TRUE)
               ELSE Batch(fs, TRUE, on_disk,
                          Append(b.metadata_to_save, _save_metadata(fs[sheet])),
                          Append(events, Event("save_metadata", pos, sheet, TRUE)),
                          FALSE)

RECURSIVE download_loop(_, _, _, _, _)
download_loop(b, list, pos, overwrite, outcomes) ==
  IF pos > Len(list) \/ b.raised THEN b
  ELSE download_loop(download_step(b, list, pos, overwrite, outcomes[pos]),
                     list, pos + 1, overwrite, outcomes)

\* _download_map_sheets(features, path_save, metadata_fname, overwrite) on
\* the index fs and the disk, with the merger's result for each position.
_download_map_sheets(fs, dates, list, overwrite, outcomes) ==
  download_loop(Batch(fs, dates, files, <<>>, <<>>, FALSE), list, 1, overwrite, outcomes)

\* The positions of the list that the loop skipped.
Skipped(events) == { events[k].pos : k \in { j \in 1..Len(events) : events[j].ev = "skip" } }

\* The merger's results are an input; a position that is skipped has none,
\* which is written TRUE.
MergeResults(list, events, outcomes) ==
  \A pos \in 1..Len(list) :
    (pos \in Skipped(events) \/ \A k \in 1..Len(events) : events[k].pos # pos)
      => outcomes[pos]

\* The end of every download call: run = FALSE when the call raised before
\* the batch (outcome says what), else the batch over the list.
Download(op, args, fs, flags, merged, outcome, list, overwrite, outcomes) ==
  \E b \in { IF outcome = "ok"
              THEN _download_map_sheets(fs, published_dates, list, overwrite, outcomes)
              ELSE Batch(fs, published_dates, files, <<>>, <<>>, FALSE) } :
  LET run == outcome = "ok"
      csv == IF run /\ ~ b.raised
             THEN _create_metadata_df(metadata_csv, b.metadata_to_save)
             ELSE metadata_csv
      events == IF run /\ ~ b.raised
                THEN Append(b.log, Event("to_csv", 0, 0, TRUE)) ELSE b.log
  IN  /\ MergeResults(list, b.log, outcomes)
      /\ Len(csv.lines) <= MaxRows + 1
      /\ features' = b.fs
      /\ polygons' = flags.polygons
      /\ wfs_id_nos' = flags.wfs_id_nos
      /\ published_dates' = b.dates
      /\ merged_polygon' = merged
      /\ files' = b.files
      /\ metadata_csv' = csv
      /\ call' = Call(op, args, IF b.raised THEN "SyntaxError" ELSE outcome)
      /\ selected' = IF run THEN list ELSE <<>>
      /\ log' = events
      /\ UNCHANGED << loader, grid_bbs, found_queries >>

\* A download that starts from an index with no derivation done.
Flags_reset == [polygons |-> FALSE, wfs_id_nos |-> FALSE]

Flags == [polygons |-> polygons, wfs_id_nos |-> wfs_id_nos]

Outcomes(list) == [1..Len(list) -> BOOLEAN]

\* A download that does not make the check of the precondition.
grid_bb_check_left_out == "ok"

\* The precondition of every download: "Please first run get_grid_bb()".
grid_bb_check == IF grid_bbs THEN "ok" ELSE "ValueError"

\* The overwrite that download_all_map_sheets hands to _download_map_sheets:
\* the call leaves the parameter out, so the default is used.
download_all_overwrite(overwrite) == FALSE

download_all_map_sheets(overwrite) ==
  LET outcome == grid_bb_check
      list == [i \in 1..Len(features) |-> i]
  IN  \E sel \in { [ fs |-> features, flags |-> Flags, merged |-> merged_polygon,
                       outcome |-> outcome, list |-> list ] } :
      \E outcomes \in Outcomes(sel.list) :
        Download("download_all_map_sheets", <<overwrite>>, sel.fs, sel.flags,
                 sel.merged, sel.outcome, sel.list, download_all_overwrite(overwrite), outcomes)

\* The loop "if <predicate>: features.append(feature)" of a download call.
RECURSIVE select_matches(_, _, _)
select_matches(matched, i, stop) ==
  IF i > Len(matched) \/ i >= stop THEN <<>>
  ELSE (IF matched[i] THEN <<i>> ELSE <<>>) \o select_matches(matched, i + 1, stop)

\* The first check that fails, in the order the code makes them.
RECURSIVE first_failure(_)
first_failure(checks) ==
  IF checks = <<>> THEN "ok"
  ELSE IF Head(checks) # "ok" THEN Head(checks)
  ELSE first_failure(Tail(checks))

DownloadWfsIdArgs ==
  { Arg("list", <<1>>), Arg("list", <<9>>) }

\* A download that does not look whether any requested id is in the catalog.
wfs_found_check_left_out(fs, requested_maps) == "ok"

\* "if set(wfs_id_list).isdisjoint(set(requested_maps)): raise ValueError"
wfs_found_check(fs, requested_maps) ==
  IF { fs[i].wfs_id_no : i \in 1..Len(fs) } \cap SeqToSet(requested_maps) = {}
  THEN "ValueError" ELSE "ok"

download_map_sheets_by_wfs_ids(wfs_ids, overwrite) ==
  LET fs == IF wfs_id_nos THEN features ELSE features_with_wfs_id_nos(features)
      extracted == wfs_id_nos \/ Completes(wfs_id_nos_ok(features))
      typed == wfs_ids.type \in {"list", "int"}
      outcome ==
        first_failure(<< IF extracted THEN "ok" ELSE "SyntaxError",
                         IF typed THEN "ok" ELSE "ValueError",
                         grid_bb_check,
                         IF extracted /\ typed
                         THEN wfs_found_check(fs, requested_maps_of(wfs_ids))
                         ELSE "ok" >>)
      list == IF outcome = "ok"
              THEN select_matches(wfs_matched(fs, wfs_ids), 1, Len(fs) + 1)
              ELSE <<>>
  IN  \E sel \in { [ fs |-> fs, flags |-> [polygons |-> polygons, wfs_id_nos |-> extracted], merged |-> merged_polygon,
                       outcome |-> outcome, list |-> list ] } :
      \E outcomes \in Outcomes(sel.list) :
        Download("download_map_sheets_by_wfs_ids", <<wfs_ids, overwrite>>, sel.fs, sel.flags,
                 sel.merged, sel.outcome, sel.list, overwrite, outcomes)

DownloadPolygonArgs ==
  { pm \in PolygonArgs :
      \/ /\ pm[1].value = create_polygon_from_latlons(Deg(0), Deg(-90), Deg(60), Deg(90))
         /\ pm[2] = "within"
      \/ /\ pm[1].value = create_polygon_from_latlons(Deg(60), Deg(120), Deg(85), Deg(150))
         /\ pm[2] = "intersects"
      \/ pm[2] = "touches" }

\* "if self.merged_polygon is None: self.get_merged_polygon()", when the
\* call gets that far.
merged_for(reached, fs) ==
  IF reached /\ merged_polygon = <<>> THEN merged_polygon_of(fs) ELSE merged_polygon

download_map_sheets_by_polygon(polygon, mode, overwrite) ==
  LET checked ==
        first_failure(<< IF polygon.type = "Polygon" THEN "ok" ELSE "ValueError",
                         mode_check(mode),
                         grid_bb_check >>)
      merged == merged_for(checked = "ok", features)
      outcome == IF checked = "ok" /\ disjoint_polygon(merged[1], polygon.value)
                 THEN "ValueError" ELSE checked
      list == IF outcome = "ok"
              THEN select_matches(polygon_matched(features, polygon.value, mode),
                                  1, Len(features) + 1)
              ELSE <<>>
  IN  \E sel \in { [ fs |-> features, flags |-> Flags, merged |-> merged,
                       outcome |-> outcome, list |-> list ] } :
      \E outcomes \in Outcomes(sel.list) :
        Download("download_map_sheets_by_polygon", <<polygon, mode, overwrite>>, sel.fs, sel.flags,
                 sel.merged, sel.outcome, sel.list, overwrite, outcomes)

DownloadCoords ==
  { Arg("tuple", <<Deg(-45), Deg(30)>>), Arg("tuple", <<Deg(150), Deg(0)>>) }

download_map_sheets_by_coordinates(coords, overwrite) ==
  LET checked ==
        first_failure(<< IF coords.type = "tuple" THEN "ok" ELSE "ValueError",
                         grid_bb_check >>)
      merged == merged_for(checked = "ok", features)
      outcome == IF checked = "ok" /\ disjoint_point(merged[1], Point(coords.value))
                 THEN "ValueError" ELSE checked
      list == IF outcome = "ok"
              THEN select_matches(coords_matched(features, Point(coords.value)),
                                  1, Len(features) + 1)
              ELSE <<>>
  IN  \E sel \in { [ fs |-> features, flags |-> Flags, merged |-> merged,
                       outcome |-> outcome, list |-> list ] } :
      \E outcomes \in Outcomes(sel.list) :
        Download("download_map_sheets_by_coordinates", <<coords, overwrite>>, sel.fs, sel.flags,
                 sel.merged, sel.outcome, sel.list, overwrite, outcomes)

DownloadLines ==
  { Arg("LineString", create_line_from_latlons(<<Deg(30), Deg(-45)>>, <<Deg(30), Deg(45)>>)),
    Arg("LineString", create_line_from_latlons(<<Deg(60), Deg(120)>>, <<Deg(85), Deg(150)>>)) }

download_map_sheets_by_line(line, overwrite) ==
  LET checked ==
        first_failure(<< IF line.type = "LineString" THEN "ok" ELSE "ValueError",
                         grid_bb_check >>)
      merged == merged_for(checked = "ok", features)
      outcome == IF checked = "ok" /\ disjoint_line(merged[1], line.value)
                 THEN "ValueError" ELSE checked
      list == IF outcome = "ok"
              THEN select_matches(line_matched(features, line.value),
                                  1, Len(features) + 1)
              ELSE <<>>
  IN  \E sel \in { [ fs |-> features, flags |-> Flags, merged |-> merged,
                       outcome |-> outcome, list |-> list ] } :
      \E outcomes \in Outcomes(sel.list) :
        Download("download_map_sheets_by_line", <<line, overwrite>>, sel.fs, sel.flags,
                 sel.merged, sel.outcome, sel.list, overwrite, outcomes)

DownloadStringArgs ==
  { sk \in StringArgs :
      /\ sk[2].value \in { <<"properties", "IMAGE">>, <<"properties", "SHEET">>,
                           <<"SHEET", "IMAGE">> }
      /\ sk[1].value # <<"z">> }

download_map_sheets_by_string(string, keys, overwrite) ==
  LET checked == first_failure(<< string_check(string, keys), grid_bb_check >>)
      fields == fields_to_search(features, keys_of(keys))
      stop == string_stop(fields)
      outcome == IF checked = "ok" /\ stop <= Len(features)
                 THEN "AttributeError" ELSE checked
      list == IF outcome = "ok"
              THEN select_matches(string_matched(fields, string.value), 1, stop)
              ELSE <<>>
  IN  \E sel \in { [ fs |-> features, flags |-> Flags, merged |-> merged_polygon,
                       outcome |-> outcome, list |-> list ] } :
      \E outcomes \in Outcomes(sel.list) :
        Download("download_map_sheets_by_string", <<string, keys, overwrite>>, sel.fs, sel.flags,
                 sel.merged, sel.outcome, sel.list, overwrite, outcomes)

\* A download by query results that takes the whole catalog instead.
download_map_sheets_by_queries_of_all(overwrite) ==
  \E sel \in { [ fs |-> features, flags |-> Flags, merged |-> merged_polygon,
                  outcome |-> grid_bb_check,
                  list |-> IF grid_bbs THEN [i \in 1..Len(features) |-> i]
                           ELSE <<>> ] } :
  \E outcomes \in Outcomes(sel.list) :
    Download("download_map_sheets_by_queries", <<overwrite>>, sel.fs, sel.flags,
             sel.merged, sel.outcome, sel.list, overwrite, outcomes)

download_map_sheets_by_queries(overwrite) ==
  LET outcome ==
        first_failure(<< grid_bb_check,
                         IF Len(found_queries) = 0 THEN "ValueError" ELSE "ok" >>)
      list == IF outcome = "ok" THEN found_queries ELSE <<>>
  IN  \E sel \in { [ fs |-> features, flags |-> Flags, merged |-> merged_polygon,
                       outcome |-> outcome, list |-> list ] } :
      \E outcomes \in Outcomes(sel.list) :
        Download("download_map_sheets_by_queries", <<overwrite>>, sel.fs, sel.flags,
                 sel.merged, sel.outcome, sel.list, overwrite, outcomes)

\* The download calls whose overwrite argument is one of overwrites.
DownloadCalls(overwrites) ==
  \/ \E overwrite \in overwrites : download_all_map_sheets(overwrite)
  \/ \E wfs_ids \in DownloadWfsIdArgs, overwrite \in overwrites :
       download_map_sheets_by_wfs_ids(wfs_ids, overwrite)
  \/ \E pm \in DownloadPolygonArgs, overwrite \in overwrites :
       download_map_sheets_by_polygon(pm[1], pm[2], overwrite)
  \/ \E coords \in DownloadCoords, overwrite \in overwrites :
       download_map_sheets_by_coordinates(coords, overwrite)
  \/ \E line \in DownloadLines, overwrite \in overwrites :
       download_map_sheets_by_line(line, overwrite)
  \/ \E sk \in DownloadStringArgs, overwrite \in overwrites :
       download_map_sheets_by_string(sk[1], sk[2], overwrite)
  \/ \E overwrite \in overwrites : download_map_sheets_by_queries(overwrite)

DownloadCall == DownloadCalls(BOOLEAN)

\* The steps a download session takes before and between its downloads:
\* the derivation that downloads require, and a query for the downloads by
\* query results.
Prepare ==
  \/ get_grid_bb(MaxZoom)
  \/ query_map_sheets_by_polygon(
       Arg("Polygon", create_polygon_from_latlons(Deg(0), Deg(-90), Deg(60), Deg(90))),
       "within", FALSE)
  \/ query_map_sheets_by_polygon(Arg("Polygon", NorthWest), "touches", FALSE)

SpecDownload == Init /\ [][Prepare \/ DownloadCall]_vars

\* download_all_map_sheets stopped between two features: a KeyboardInterrupt
\* (or any exception) raised in the loop of _download_map_sheets when the
\* first done features of the list were processed.  The loop has no handler,
\* so the call ends there and the lines after the loop, which write the
\* metadata file, do not run.
download_all_map_sheets_interrupted(done) ==
  /\ grid_bbs
  /\ done < Len(features)
  /\ \E outcomes \in Outcomes([i \in 1..done |-> i]) :
     \E b \in { download_loop(Batch(features, published_dates, files, <<>>, <<>>, FALSE),
                              [i \in 1..done |-> i], 1, FALSE, outcomes) } :
       /\ ~ b.raised
       /\ MergeResults([i \in 1..done |-> i], b.log, outcomes)
       /\ features' = b.fs
       /\ published_dates' = b.dates
       /\ files' = b.files
       /\ call' = Call("download_all_map_sheets", <<FALSE>>, "KeyboardInterrupt")
       /\ selected' = [i \in 1..Len(features) |-> i]
       /\ log' = b.log
       /\ UNCHANGED << loader, polygons, grid_bbs, wfs_id_nos, found_queries,
                       merged_polygon, metadata_csv >>

\* Download sessions that may be stopped and run again.
SpecResume ==
  Init /\ [][ \/ get_grid_bb(MaxZoom)
              \/ \E done \in 1..MaxRows : download_all_map_sheets_interrupted(done)
              \/ \E overwrite \in BOOLEAN : download_all_map_sheets(overwrite) ]_vars

\* Catalogs whose metadata file lists a sheet twice, with and without
\* another sheet of the same IMAGE name between the two.
RepeatedCatalogs == { <<SheetA, SheetA>>, <<SheetA, SheetC, SheetA>> }

\* A SheetDownloader constructed on such a catalog.
InitRepeated ==
  /\ features \in RepeatedCatalogs
  /\ polygons = FALSE
  /\ grid_bbs = FALSE
  /\ wfs_id_nos = FALSE
  /\ published_dates = FALSE
  /\ found_queries = <<>>
  /\ merged_polygon = <<>>
  /\ files = {}
  /\ metadata_csv = [exists |-> FALSE, lines |-> <<>>]
  /\ call = Call("__init__", <<>>, "ok")
  /\ selected = <<>>
  /\ log = <<>>
  /\ loader = AnnotationsLoader_init

SpecRepeated == InitRepeated /\ [][Prepare \/ DownloadCall]_vars

\* Download sessions on such a catalog in which no call asks to overwrite.
SpecKeeping == InitRepeated /\ [][Prepare \/ DownloadCalls({FALSE})]_vars

------------------------------------------------------------------------------
(* Calls of the tile conversions (downloader_utils.py) *)

\* A call that returns a value: result is <<value>>, or <<>> when it raised.
Returned(op, args, outcome, result) ==
  [op |-> op, args |-> args, outcome |-> outcome, result |-> result]

\* get_index_from_coordinate(coordinate, zoom), the assertion included
index_from_coordinate(coordinate, zoom) ==
  /\ call' = Returned("get_index_from_coordinate", <<coordinate, zoom>>,
                      IF zoom_ok(zoom) THEN "ok" ELSE "AssertionError",
                      IF zoom >= 0
                        THEN << get_index_from_coordinate(coordinate, zoom) >>
                        ELSE <<>>)
  /\ UNCHANGED << loader, features, polygons, grid_bbs, wfs_id_nos, published_dates,
                  found_queries, merged_polygon, files, metadata_csv,
                  selected, log >>

\* get_coordinate_from_index(grid_index), the assertion included
coordinate_from_index(grid_index) ==
  /\ call' = Returned("get_coordinate_from_index", <<grid_index>>,
                      IF zoom_ok(grid_index.z) THEN "ok" ELSE "AssertionError",
                      IF grid_index.z >= 0
                        THEN << get_coordinate_from_index(grid_index) >>
                        ELSE <<>>)
  /\ UNCHANGED << loader, features, polygons, grid_bbs, wfs_id_nos, published_dates,
                  found_queries, merged_polygon, files, metadata_csv,
                  selected, log >>

\* get_grid_bb_from_polygon(polygon, zoom_level)
grid_bb_from_polygon(polygon, zoom_level) ==
  /\ call' = Returned("get_grid_bb_from_polygon", <<polygon, zoom_level>>,
                      IF zoom_ok(zoom_level) THEN "ok" ELSE "AssertionError",
                      IF zoom_level >= 0
                        THEN << get_grid_bb_from_polygon(polygon, zoom_level) >>
                        ELSE <<>>)
  /\ UNCHANGED << loader, features, polygons, grid_bbs, wfs_id_nos, published_dates,
                  found_queries, merged_polygon, files, metadata_csv,
                  selected, log >>

\* get_polygon_from_grid_bb(grid_bb), of a box an earlier call returned
polygon_from_grid_bb ==
  /\ call.op = "get_grid_bb_from_polygon"
  /\ call.outcome = "ok"
  /\ call' = Returned("get_polygon_from_grid_bb", << call.result[1] >>, "ok",
                      << get_polygon_from_grid_bb(call.result[1]) >>)
  /\ UNCHANGED << loader, features, polygons, grid_bbs, wfs_id_nos, published_dates,
                  found_queries, merged_polygon, files, metadata_csv,
                  selected, log >>

\* The conversions with the arguments a caller passes, in thousandths of a
\* degree: latitudes at the poles, the Mercator limits, the tile edges and
\* between them; the tiles of the zoom levels 0..MaxZoom; rectangles between
\* the Mercator limits; and a zoom level below 0.
Convert ==
  \/ \E lat \in DOMAIN MercatorFraction :
     \E lon \in { Deg(-180), Deg(-45), Deg(30), Deg(180) } :
     \E zoom \in ZoomLevels :
       index_from_coordinate(Coordinate(lat, lon), zoom)
  \/ \E z \in ZoomLevels :
     \E x \in 0..(Pow2(Max2(z, 0)) - 1), y \in 0..(Pow2(Max2(z, 0)) - 1) :
       coordinate_from_index(GridIndex(x, y, z))
  \/ \E w \in { Deg(-180), Deg(-90) }, e \in { Deg(0), Deg(90), Deg(180) } :
     \E s \in { Deg(-85), Deg(0) }, n \in { Deg(0), Deg(60), Deg(85) } :
     \E zoom_level \in ZoomLevels :
       grid_bb_from_polygon(box(w, s, e, n), zoom_level)
  \/ polygon_from_grid_bb

\* The conversions, called directly and by get_grid_bb.
SpecTiles ==
  Init /\ [][Convert \/ \E zoom_level \in ZoomLevels : get_grid_bb(zoom_level)]_vars

------------------------------------------------------------------------------
(* The annotations loader *)

\* The names a call gives for the three columns. The tables passed to load
\* carry a column under every one of these names.
IdCols == {"image_id", "id"}

PatchPathsCols == {"image_path", "path"}

LabelCols == {"label", "class"}

\* NaN, in a column of strings and in the label_index column.
NaN == "nan"

NaNIndex == -1

Row(name, cells) == [name |-> name, cells |-> cells]

\* The cells of a row about one patch: its id, the path of its file, and what
\* it is labelled in either label column.
PatchCells(id, path, label, class) ==
  [ c \in IdCols \cup PatchPathsCols \cup LabelCols |->
      IF c \in IdCols THEN id
      ELSE IF c \in PatchPathsCols THEN path
      ELSE IF c = "label" THEN label ELSE class ]

\* The patch files that exist.
PatchFiles == {"patch_a.png", "patch_b.png"}

FrameAB ==
  << Row(0, PatchCells("patch_a", "patch_a.png", "building", "urban")),
     Row(1, PatchCells("patch_b", "patch_b.png", "railway", "urban")) >>

FrameB == << Row(0, PatchCells("patch_b", "patch_b.png", "railway", "urban")) >>

FrameGone == << Row(0, PatchCells("patch_c", "patch_c.png", "building", "urban")) >>

\* What load is given as annotations: a data frame, or something that is
\* neither a data frame nor a string.
Annotations ==
  { Arg("DataFrame", FrameAB), Arg("DataFrame", FrameB),
    Arg("DataFrame", FrameGone), Arg("int", <<>>) }

Labels == {"building", "railway", "urban"}

\* The column names a call of load gives: the defaults, or other ones.
ColumnNames ==
  { <<"image_id", "image_path", "label">>, <<"id", "path", "class">> }

Columns_of(frame) == IF frame = <<>> THEN {} ELSE DOMAIN frame[1].cells

\* pd.concat([a, b]): the rows of both with their index labels, every row
\* over the columns of both, NaN where it had none.
concat(a, b) ==
  LET columns == Columns_of(a) \cup Columns_of(b)
      filled(row) ==
        Row(row.name,
            [ c \in columns |->
                IF c \in DOMAIN row.cells THEN row.cells[c]
                ELSE IF c = "label_index" THEN NaNIndex ELSE NaN ])
      rows == a \o b
  IN  [ i \in 1..Len(rows) |-> filled(rows[i]) ]

\* reset_index(drop=True): the rows numbered from 0.
reset_index(frame) == [ i \in 1..Len(frame) |-> Row(i - 1, frame[i].cells) ]

\* frame.drop(name): every row under the index label goes.
drop(frame, name) == SelectSeq(frame, LAMBDA row : row.name # name)

\* The loop of _check_patch_paths with remove_broken: the rows are visited as
\* they were at the start; a row whose file is missing has its index label
\* dropped from the table, a KeyError when no row is left under that label.
RECURSIVE remove_broken(_, _, _, _)
remove_broken(frame, visited, k, patch_paths_col) ==
  IF k > Len(visited) THEN [frame |-> frame, raised |-> FALSE]
  ELSE IF visited[k].cells[patch_paths_col] \in PatchFiles
    THEN remove_broken(frame, visited, k + 1, patch_paths_col)
  ELSE IF \A i \in 1..Len(frame) : frame[i].name # visited[k].name
    THEN [frame |-> frame, raised |-> TRUE]
  ELSE remove_broken(drop(frame, visited[k].name), visited, k + 1, patch_paths_col)

\* _check_patch_paths(remove_broken=True, ignore_broken=False): the table it
\* leaves and how it ends.
_check_patch_paths(frame, patch_paths_col) ==
  LET broken_paths ==
        { i \in 1..Len(frame) : frame[i].cells[patch_paths_col] \notin PatchFiles }
      removed == remove_broken(frame, frame, 1, patch_paths_col)
  IN  IF Len(frame) = 0 THEN [frame |-> frame, outcome |-> "ok"]
      ELSE IF removed.raised THEN [frame |-> removed.frame, outcome |-> "KeyError"]
      ELSE IF broken_paths # {} /\ Len(removed.frame) = 0
        THEN [frame |-> removed.frame, outcome |-> "ValueError"]
      ELSE [frame |-> removed.frame, outcome |-> "ok"]

\* Series.unique().tolist(): the values in the order they first appear.
RECURSIVE unique(_, _)
unique(frame, col) ==
  IF frame = <<>> THEN <<>>
  ELSE LET before == unique(SubSeq(frame, 1, Len(frame) - 1), col)
           value == frame[Len(frame)].cells[col]
       IN  IF \E i \in 1..Len(before) : before[i] = value THEN before
           ELSE Append(before, value)

\* _get_label_index: list.index, the place of the label counted from 0; this
\* is only called with a label of the list.
_get_label_index(unique_labels, label) ==
  (CHOOSE i \in 1..Len(unique_labels) : unique_labels[i] = label) - 1

\* The label_index column, set from the label column.
with_label_index(frame, label_col, unique_labels) ==
  [ i \in 1..Len(frame) |->
      Row(frame[i].name,
          [ c \in DOMAIN frame[i].cells \cup {"label_index"} |->
              IF c = "label_index"
              THEN _get_label_index(unique_labels, frame[i].cells[label_col])
              ELSE frame[i].cells[c] ]) ]

\* The column name an attribute holds after load was given col: the one given
\* when none was set; a name set before stays, and a different one given is
\* only warned about.
set_col(attribute, col) == IF attribute = None THEN col ELSE attribute

\* AnnotationsLoader.load of a data frame, with images_dir left out.
load(annotations, id_col, patch_paths_col, label_col, append) ==
  LET cols == [ loader EXCEPT !.id_col = set_col(@, id_col),
                              !.patch_paths_col = set_col(@, patch_paths_col),
                              !.label_col = set_col(@, label_col) ]
      joined == IF append THEN concat(loader.annotations, annotations.value)
                ELSE annotations.value
      args == <<annotations, id_col, patch_paths_col, label_col, append>>
  IN  /\ annotations.type = "DataFrame" /\ append =>
           Len(loader.annotations) + Len(annotations.value) <= MaxAnnotations
      /\ IF annotations.type # "DataFrame"
           THEN /\ loader' = cols
                /\ call' = Call("load", args, "ValueError")
         ELSE \E checked \in { _check_patch_paths(joined, cols.patch_paths_col) } :
           IF checked.outcome # "ok"
             THEN /\ loader' = [ cols EXCEPT !.annotations = checked.frame ]
                  /\ call' = Call("load", args, checked.outcome)
           ELSE \E unique_labels \in { unique(checked.frame, cols.label_col) } :
                  /\ loader' =
                       [ cols EXCEPT
                           !.annotations =
                              with_label_index(checked.frame, cols.label_col,
                                               unique_labels),
                           !.unique_labels = unique_labels ]
                  /\ call' = Call("load", args, "ok")
      /\ UNCHANGED << features, polygons, grid_bbs, wfs_id_nos, published_dates,
                      found_queries, merged_polygon, files, metadata_csv,
                      selected, log >>

\* DataFrame.drop_duplicates(subset=[col]): a new table with the first row of
\* every value of the column.
drop_duplicates(frame, col) ==
  LET first(i) == \A j \in 1..(i - 1) : frame[j].cells[col] # frame[i].cells[col]
      kept == { i \in 1..Len(frame) : first(i) }
      RECURSIVE rows(_)
      rows(n) == IF n = 0 THEN <<>>
                 ELSE IF n \in kept THEN Append(rows(n - 1), frame[n])
                 ELSE rows(n - 1)
  IN  rows(Len(frame))

\* The step of review_labels that adds a shown row to self.reviewed: the row
\* is appended, drop_duplicates is called on the result, and what it returns
\* is not kept.
add_to_reviewed(reviewed, row, deduplicate_col) == concat(reviewed, <<row>>)

RECURSIVE add_all_to_reviewed(_, _, _)
add_all_to_reviewed(reviewed, rows, deduplicate_col) ==
  IF rows = <<>> THEN reviewed
  ELSE add_all_to_reviewed(add_to_reviewed(reviewed, Head(rows), deduplicate_col),
                           Tail(rows), deduplicate_col)

\* frame.loc[name, col] = value, with rows under that index label.
loc_set(frame, name, col, value) ==
  [ i \in 1..Len(frame) |->
      IF frame[i].name = name
      THEN Row(name, [ frame[i].cells EXCEPT ![col] = value ])
      ELSE frame[i] ]

\* What the user answers when the reviewed patches are shown: nothing, or
\* the id of one of them and the label it is to have.
Relabels(ids) == { <<>> } \cup { <<id, label>> : id \in ids, label \in Labels }

\* AnnotationsLoader.review_labels without exclude_df and include_df, all
\* patches fitting one chunk. The ids the user enters are index labels of
\* both the rows shown and the annotations.
review_labels(label_to_review, deduplicate_col) ==
  LET args(relabel) == <<label_to_review, deduplicate_col, relabel>>
      annots2review ==
        reset_index(IF label_to_review # None
                    THEN SelectSeq(loader.annotations,
                           LAMBDA row : row.cells[loader.label_col] = label_to_review)
                    ELSE loader.annotations)
      annotations == IF label_to_review # None THEN loader.annotations
                     ELSE annots2review
      reviewed == add_all_to_reviewed(loader.reviewed, annots2review, deduplicate_col)
      iter_ids == { annots2review[i].name : i \in 1..Len(annots2review) }
                    \cap { annotations[i].name : i \in 1..Len(annotations) }
  IN  /\ Len(loader.reviewed) + Len(annots2review) <= MaxReviewed
      /\ IF Len(loader.annotations) = 0
           THEN /\ call' = Call("review_labels", args(<<>>), "ValueError")
                /\ UNCHANGED loader
         ELSE \E relabel \in Relabels(iter_ids) :
           IF relabel = <<>>
             THEN /\ loader' = [ loader EXCEPT !.annotations = annotations,
                                               !.reviewed = reviewed ]
                  /\ call' = Call("review_labels", args(relabel), "ok")
           ELSE
             LET relabelled(frame) == loc_set(frame, relabel[1], loader.label_col,
                                              relabel[2])
                 known == \E i \in 1..Len(loader.unique_labels) :
                             loader.unique_labels[i] = relabel[2]
                 indexed(frame) ==
                   loc_set(relabelled(frame), relabel[1], "label_index",
                           _get_label_index(loader.unique_labels, relabel[2]))
             IN  IF ~ known
                   THEN /\ loader' = [ loader EXCEPT
                                         !.annotations = relabelled(annotations),
                                         !.reviewed = relabelled(reviewed) ]
                        /\ call' = Call("review_labels", args(relabel), "ValueError")
                 ELSE /\ loader' = [ loader EXCEPT
                                       !.annotations = indexed(annotations),
                                       !.reviewed = indexed(reviewed) ]
                      /\ call' = Call("review_labels", args(relabel), "ok")
      /\ UNCHANGED << features, polygons, grid_bbs, wfs_id_nos, published_dates,
                      found_queries, merged_polygon, files, metadata_csv,
                      selected, log >>

LoaderCall ==
  \/ \E annotations \in Annotations, cols \in ColumnNames, append \in BOOLEAN :
       load(annotations, cols[1], cols[2], cols[3], append)
  \/ \E label_to_review \in {None} \cup Labels :
       review_labels(label_to_review, "image_id")

\* The loader next to an index over one catalog.
InitLoader == Init /\ features = <<SheetD, SheetA>>

SpecLoader == InitLoader /\ [][LoaderCall]_vars

Next == Derive \/ Query \/ DownloadCall \/ Convert \/ LoaderCall

Spec == Init /\ [][Next]_vars

------------------------------------------------------------------------------
(* What the properties below read of a call *)

DownloadOps ==
  { "download_all_map_sheets", "download_map_sheets_by_wfs_ids",
    "download_map_sheets_by_polygon", "download_map_sheets_by_coordinates",
    "download_map_sheets_by_line", "download_map_sheets_by_string",
    "download_map_sheets_by_queries" }

QueryOps ==
  { "query_map_sheets_by_wfs_ids", "query_map_sheets_by_polygon",
    "query_map_sheets_by_coordinates", "query_map_sheets_by_line",
    "query_map_sheets_by_string" }

\* The overwrite (of a download) or append (of a query) a call was given:
\* its last argument.
last_arg(c) == c.args[Len(c.args)]

\* The file a sheet of the index fs is saved as.
ImageFile(fs, sheet) == png_of(map_name_of(fs[sheet]))

\* The positions of the selected list at which the call did ev.
PositionsOf(events, ev) ==
  { events[k].pos : k \in { j \in 1..Len(events) : events[j].ev = ev } }

\* The positions of the selected list whose merge succeeded.
MergedOk(events) ==
  { events[k].pos : k \in { j \in 1..Len(events) :
                              events[j].ev = "merge" /\ events[j].ok } }

\* The file of position pos was on disk when the loop came to it: it was
\* there before the call, or an earlier position of the call wrote it.
ExistedAt(fs, on_disk, list, events, pos) ==
  \/ ImageFile(fs, list[pos]) \in on_disk
  \/ \E q \in MergedOk(events) :
       q < pos /\ ImageFile(fs, list[q]) = ImageFile(fs, list[pos])

------------------------------------------------------------------------------
(* C1 *)

\* C1: every download operation skips a feature of its selection exactly
\* when the file map_<IMAGE>.png exists already and overwrite was not
\* requested; a feature that is not skipped is fetched and merged, so with
\* overwrite=True every selected feature is.
C1_SkipsExactlyExistingWithoutOverwrite ==
  [][ (call'.op \in DownloadOps /\ call'.outcome = "ok") =>
        \A pos \in 1..Len(selected') :
          /\ (pos \in PositionsOf(log', "skip"))
               <=> (/\ ExistedAt(features, files, selected', log', pos)
                    /\ ~ last_arg(call'))
          /\ (pos \notin PositionsOf(log', "skip"))
               => (/\ pos \in PositionsOf(log', "download_tiles")
                   /\ pos \in PositionsOf(log', "merge")) ]_vars

------------------------------------------------------------------------------
(* C2 *)

\* C2: found_queries never holds a feature twice (so a query run a second
\* time with append=True adds nothing).
C2_NoFeatureTwice ==
  \A i, j \in 1..Len(found_queries) :
    i # j => found_queries[i] # found_queries[j]

------------------------------------------------------------------------------
(* C3 *)

\* C3: a download operation called while grid_bbs is false fails, fetches
\* nothing, merges nothing, writes no metadata, and does not run
\* get_grid_bb: the flag is still false and no feature gained a grid_bb.
C3_DownloadNeedsGridBbs ==
  [][ (call'.op \in DownloadOps /\ ~ grid_bbs) =>
        /\ call'.outcome # "ok"
        /\ log' = <<>>
        /\ files' = files
        /\ metadata_csv' = metadata_csv
        /\ ~ grid_bbs'
        /\ \A i \in 1..Len(features') :
             HasKey(features'[i], "grid_bb") => HasKey(features[i], "grid_bb") ]_vars

\* A download by WFS ids has failed with the grid boxes not computed, after
\* it extracted the WFS id numbers.
C3_Witness ==
  /\ call.op = "download_map_sheets_by_wfs_ids"
  /\ call.outcome = "ValueError"
  /\ ~ grid_bbs
  /\ wfs_id_nos
  /\ log = <<>>

------------------------------------------------------------------------------
(* C4 *)

\* The lines a step adds to the metadata file, and the rows among them.
NewLines ==
  SubSeq(metadata_csv'.lines, Len(metadata_csv.lines) + 1, Len(metadata_csv'.lines))

IsRow(line) == line.kind = "row"

\* The members of a set of positions, in increasing order.
InOrder(S) ==
  CHOOSE q \in [1..Cardinality(S) -> S] :
    \A i, j \in 1..Cardinality(S) : i < j => q[i] < q[j]

\* C4: in a download call that returns, a merge that fails does not end the
\* batch (every position of the selection is skipped or merged), and the
\* rows the call adds to the metadata file are those of the positions that
\* were not skipped and whose merge succeeded, one each, in list order.
C4_RowsAreTheMergedSheets ==
  [][ (call'.op \in DownloadOps /\ call'.outcome = "ok") =>
        LET done == InOrder(MergedOk(log') \ PositionsOf(log', "skip"))
            rows == SelectSeq(NewLines, IsRow)
        IN  /\ \A pos \in 1..Len(selected') :
                 pos \in PositionsOf(log', "skip") \cup PositionsOf(log', "merge")
            /\ Len(rows) = Len(done)
            /\ \A i \in 1..Len(rows) :
                 /\ rows[i].name = ImageFile(features', selected'[done[i]])
                 /\ rows[i].url = features'[selected'[done[i]]].properties.IMAGEURL
                 /\ rows[i].grid_bb = features'[selected'[done[i]]].grid_bb ]_vars

\* A call has returned in which a merge failed and the merge of a later
\* position succeeded, and the file ends with the row of that position.
C4_Witness ==
  /\ call.op \in DownloadOps
  /\ call.outcome = "ok"
  /\ \E j, k \in 1..Len(log) :
       /\ log[j].ev = "merge" /\ ~ log[j].ok
       /\ log[k].ev = "merge" /\ log[k].ok
       /\ log[j].pos < log[k].pos
       /\ Len(metadata_csv.lines) > 0
       /\ metadata_csv.lines[Len(metadata_csv.lines)].kind = "row"
       /\ metadata_csv.lines[Len(metadata_csv.lines)].name
            = ImageFile(features, selected[log[k].pos])

------------------------------------------------------------------------------
(* C5 *)

\* C5: the metadata file is only appended to: the lines it holds before a
\* step are, unchanged and in order, the first lines it holds after it.
C5_MetadataAppendOnly ==
  [][ /\ metadata_csv.exists => metadata_csv'.exists
      /\ Len(metadata_csv.lines) <= Len(metadata_csv'.lines)
      /\ SubSeq(metadata_csv'.lines, 1, Len(metadata_csv.lines))
           = metadata_csv.lines ]_vars

\* The file holds the rows of two calls: a row, and after it the first row
\* (index 0) of a later flush.
C5_Witness ==
  \E i, j \in 1..Len(metadata_csv.lines) :
    /\ i < j
    /\ metadata_csv.lines[i].kind = "row"
    /\ metadata_csv.lines[j].kind = "row"
    /\ metadata_csv.lines[j].index = 0

------------------------------------------------------------------------------
(* C6 *)

\* C6: a download call with overwrite=False, made when the file of every
\* selected feature exists, fetches no tile, merges nothing and adds no row
\* to the metadata file.
C6_NothingToDoWhenAllExist ==
  [][ ( /\ call'.op \in DownloadOps
        /\ call'.outcome = "ok"
        /\ ~ last_arg(call')
        /\ \A pos \in 1..Len(selected') :
             ImageFile(features, selected'[pos]) \in files ) =>
        /\ PositionsOf(log', "download_tiles") = {}
        /\ PositionsOf(log', "merge") = {}
        /\ SelectSeq(NewLines, IsRow) = <<>>
        /\ files' = files ]_vars

\* A call with overwrite=False has returned having skipped every one of
\* the sheets it selected, whose files are on disk.
C6_Witness ==
  /\ call.op \in DownloadOps
  /\ call.outcome = "ok"
  /\ ~ last_arg(call)
  /\ Len(selected) > 1
  /\ PositionsOf(log, "skip") = 1..Len(selected)
  /\ \A pos \in 1..Len(selected) : ImageFile(features, selected[pos]) \in files

------------------------------------------------------------------------------
(* C7 *)

\* What a query step added to found_queries: with append=True the entries
\* after those it held, else all of them.
Added ==
  IF last_arg(call')
  THEN SubSeq(found_queries', Len(found_queries) + 1, Len(found_queries'))
  ELSE found_queries'

\* C7: a query with append=False leaves in found_queries its matches alone,
\* each once and in catalog order; a query with append=True keeps the
\* entries that were there, in place, and adds after them only features
\* that were not among them, each once and in catalog order.
C7_AppendKeepsAndAddsOnlyNew ==
  [][ (call'.op \in QueryOps /\ call'.outcome = "ok") =>
        /\ last_arg(call') =>
             /\ Len(found_queries) <= Len(found_queries')
             /\ SubSeq(found_queries', 1, Len(found_queries)) = found_queries
             /\ \A k \in 1..Len(Added) : Added[k] \notin SeqToSet(found_queries)
        /\ \A i, j \in 1..Len(Added) : i < j => Added[i] < Added[j] ]_vars

------------------------------------------------------------------------------
(* C8 *)

\* C8: what a polygon query in mode "within" adds to found_queries is
\* features whose polygon lies inside the query polygon, and each of them
\* is a feature that the same query in mode "intersects" selects.
C8_WithinIsContainedAndIntersects ==
  [][ ( /\ call'.op = "query_map_sheets_by_polygon"
        /\ call'.outcome = "ok"
        /\ call'.args[2] = "within" ) =>
        \A k \in 1..Len(Added) :
          LET q == call'.args[1].value
              p == features'[Added[k]].polygon
          IN  /\ q.minx <= p.minx /\ p.maxx <= q.maxx
              /\ q.miny <= p.miny /\ p.maxy <= q.maxy
              /\ polygon_matched(features', q, "intersects")[Added[k]] ]_vars

\* A query in mode "within" has returned some features and left out one
\* that its polygon intersects.
C8_Witness ==
  /\ call.op = "query_map_sheets_by_polygon"
  /\ call.outcome = "ok"
  /\ call.args[2] = "within"
  /\ ~ last_arg(call)
  /\ found_queries # <<>>
  /\ \E i \in Positions :
       /\ i \notin SeqToSet(found_queries)
       /\ polygon_matched(features, call.args[1].value, "intersects")[i]

------------------------------------------------------------------------------
(* C9 *)

\* The feature has a value under the key path.
RECURSIVE path_present(_, _)
path_present(d, keys) ==
  IF keys = <<>> THEN TRUE
  ELSE /\ d.t = "dict"
       /\ HasKey(d.v, Head(keys))
       /\ path_present(d.v[Head(keys)], Tail(keys))

\* C9: a string query with well-typed arguments never raises, and selects
\* no feature that lacks the key path, whatever the search string.
C9_AbsentKeyNeverMatches ==
  ( /\ call.op = "query_map_sheets_by_string"
    /\ call.args[1].type = "str"
    /\ call.args[2].type \in {"None", "str", "list"} ) =>
    /\ call.outcome = "ok"
    /\ ~ last_arg(call) =>
         \A k \in 1..Len(found_queries) :
           path_present(PyFeature(features[found_queries[k]]), keys_of(call.args[2]))

------------------------------------------------------------------------------
(* C10 *)

\* C10: a derivation step called when its flag is set changes nothing of
\* the features, get_grid_bb with another zoom level included.
C10_DerivationAtMostOnce ==
  [][ /\ (call'.op = "get_polygons" /\ polygons) => features' = features
      /\ (call'.op = "get_grid_bb" /\ grid_bbs) => features' = features
      /\ (call'.op = "extract_wfs_id_nos" /\ wfs_id_nos) => features' = features
      /\ (call'.op = "extract_published_dates" /\ published_dates)
           => features' = features ]_vars

------------------------------------------------------------------------------
(* C11 *)

\* The tile (x, y) of zoom z is inside the grid of that zoom level.
InGrid(grid_index) ==
  /\ 0 <= grid_index.x /\ grid_index.x < Pow2(grid_index.z)
  /\ 0 <= grid_index.y /\ grid_index.y < Pow2(grid_index.z)

\* C11: the index of a tile's upper-left corner, taken at the tile's zoom
\* level, is the tile itself and never a neighbouring tile.
C11_RoundTripIsTheSameTile ==
  ( /\ call.op = "get_coordinate_from_index"
    /\ call.outcome = "ok"
    /\ InGrid(call.args[1]) ) =>
    get_index_from_coordinate(call.result[1], call.args[1].z) = call.args[1]

------------------------------------------------------------------------------
(* C12 *)

\* The rectangle outer reaches at least as far as inner on all four sides.
BoundsContain(outer, inner) ==
  /\ outer[1] <= inner[1]
  /\ outer[2] <= inner[2]
  /\ outer[3] >= inner[3]
  /\ outer[4] >= inner[4]

\* C12: the polygon rebuilt from the grid bounding box of a polygon has
\* bounds that contain the bounds of the polygon on all four sides.
C12_RebuiltPolygonNeverShrinks ==
  ( /\ call.op = "get_grid_bb_from_polygon"
    /\ call.outcome = "ok" ) =>
    BoundsContain(bounds(get_polygon_from_grid_bb(call.result[1])),
                  bounds(call.args[1]))

------------------------------------------------------------------------------
(* C13 *)

\* x and y of the slippy formula, rounded down.
FloorIndex(coordinate, zoom) ==
  GridIndex(((coordinate.lon + 180 * CoordScale) * Pow2(zoom)) \div (360 * CoordScale),
            (MercatorFraction[coordinate.lat] * Pow2(zoom)) \div Pow2(FracBits),
            zoom)

\* C13: for a zoom level >= 0 and a latitude in [-90, 90] and longitude in
\* [-180, 180], get_index_from_coordinate returns the tile of that zoom
\* level with 0 <= x < 2^zoom and 0 <= y < 2^zoom, x and y the floor of the
\* slippy formula.
C13_IndexIsInsideTheGrid ==
  ( /\ call.op = "get_index_from_coordinate"
    /\ call.args[2] >= 0 ) =>
    /\ call.outcome = "ok"
    /\ call.result[1].z = call.args[2]
    /\ InGrid(call.result[1])
    /\ call.result[1] = FloorIndex(call.args[1], call.args[2])

------------------------------------------------------------------------------
(* C14 *)

\* Both corners at one zoom level, the lower corner not right of the upper.
CornersInOrder(grid_bb) ==
  /\ grid_bb.lower_corner.z = grid_bb.upper_corner.z
  /\ grid_bb.lower_corner.x <= grid_bb.upper_corner.x

\* The start and end cells get_grid_bb_from_polygon builds the box from.
start_idx_of(polygon, zoom_level) ==
  get_index_from_coordinate(Coordinate(bounds(polygon)[2], bounds(polygon)[3]),
                            zoom_level)

end_idx_of(polygon, zoom_level) ==
  get_index_from_coordinate(Coordinate(bounds(polygon)[4], bounds(polygon)[1]),
                            zoom_level)

------------------------------------------------------------------------------
(* C15 *)

\* C15: with a zoom level below 0, get_index_from_coordinate and
\* get_coordinate_from_index raise and return no value.
C15_NegativeZoomRaises ==
  /\ (call.op = "get_index_from_coordinate" /\ call.args[2] < 0) =>
       (call.outcome = "AssertionError" /\ call.result = <<>>)
  /\ (call.op = "get_coordinate_from_index" /\ call.args[1].z < 0) =>
       (call.outcome = "AssertionError" /\ call.result = <<>>)

C15_Witness ==
  /\ call.op = "get_coordinate_from_index"
  /\ call.args[1].z < 0
  /\ call.outcome = "AssertionError"

------------------------------------------------------------------------------
(* C16 *)

PolygonOps == { "query_map_sheets_by_polygon", "download_map_sheets_by_polygon" }

\* C16: the polygon query and the polygon download, given a polygon and a
\* mode other than "within" and "intersects", raise NotImplementedError
\* and have fetched no tile, merged nothing, written no metadata and left
\* the query results as they were.
C16_UnknownModeRaisesFirst ==
  [][ ( /\ call'.op \in PolygonOps
        /\ call'.args[1].type = "Polygon"
        /\ call'.args[2] \notin {"within", "intersects"} ) =>
        /\ call'.outcome = "NotImplementedError"
        /\ log' = <<>>
        /\ files' = files
        /\ metadata_csv' = metadata_csv
        /\ found_queries' = found_queries ]_vars

\* The download was refused for its mode although the index was ready for
\* a download and held query results.
C16_Witness ==
  /\ call.op = "download_map_sheets_by_polygon"
  /\ call.args[2] \notin {"within", "intersects"}
  /\ call.outcome = "NotImplementedError"
  /\ grid_bbs
  /\ found_queries # <<>>

------------------------------------------------------------------------------
(* C17 *)

GeometryOps ==
  { "download_map_sheets_by_polygon", "download_map_sheets_by_coordinates",
    "download_map_sheets_by_line" }

\* The call c got a geometry of the right type (and a known mode) that
\* meets no polygon of the catalog fs.
OutOfBounds(fs, c) ==
  \/ /\ c.op = "download_map_sheets_by_polygon"
     /\ c.args[1].type = "Polygon"
     /\ c.args[2] \in {"within", "intersects"}
     /\ \A i \in 1..Len(fs) : ~ RectsMeet(fs[i].polygon, c.args[1].value)
  \/ /\ c.op = "download_map_sheets_by_coordinates"
     /\ c.args[1].type = "tuple"
     /\ \A i \in 1..Len(fs) : ~ PointMeets(fs[i].polygon, Point(c.args[1].value))
  \/ /\ c.op = "download_map_sheets_by_line"
     /\ c.args[1].type = "LineString"
     /\ \A i \in 1..Len(fs) : ~ line_intersects(fs[i].polygon, c.args[1].value)

\* C17: a download by polygon, coordinates or line whose geometry meets no
\* polygon of the catalog raises ValueError, having fetched no tile and
\* written no file and no metadata; the union of the catalog polygons is
\* computed by the first such call that needs it and kept by the later ones.
C17_OutOfBoundsRaisesFirst ==
  [][ (call'.op \in GeometryOps /\ grid_bbs) =>
        /\ OutOfBounds(features, call') =>
              /\ call'.outcome = "ValueError"
              /\ log' = <<>>
              /\ files' = files
              /\ metadata_csv' = metadata_csv
        /\ merged_polygon # <<>> => merged_polygon' = merged_polygon
        /\ (merged_polygon = <<>> /\ call'.outcome = "ok") =>
              merged_polygon' = << { features[i].polygon : i \in Positions } >> ]_vars

\* An out-of-bounds download refused on an index that holds the union and
\* has files and metadata on disk.
C17_Witness ==
  /\ call.op \in GeometryOps
  /\ grid_bbs
  /\ OutOfBounds(features, call)
  /\ call.outcome = "ValueError"
  /\ merged_polygon # <<>>
  /\ files # {}
  /\ metadata_csv.exists

------------------------------------------------------------------------------
(* C18 *)

\* The positions of the catalog fs whose wfs_id_no is among the ids.
WithRequestedId(fs, ids) ==
  { i \in 1..Len(fs) : fs[i]["wfs_id_no"] \in SeqToSet(ids) }

\* C18: a download by a list of WFS ids on an index with grid_bbs raises
\* ValueError, fetching nothing and writing no file and no metadata, when
\* no requested id is a wfs_id_no of the catalog; otherwise it selects
\* exactly the features whose wfs_id_no is requested, in catalog order.
C18_WfsIdsSelectExactlyTheRequested ==
  [][ ( /\ call'.op = "download_map_sheets_by_wfs_ids"
        /\ call'.args[1].type = "list"
        /\ grid_bbs ) =>
        IF WithRequestedId(features', call'.args[1].value) = {}
        THEN /\ call'.outcome = "ValueError"
             /\ selected' = <<>>
             /\ log' = <<>>
             /\ files' = files
             /\ metadata_csv' = metadata_csv
        ELSE /\ call'.outcome = "ok"
             /\ selected' = InOrder(WithRequestedId(features', call'.args[1].value)) ]_vars

\* A download that selected some features of the catalog and left others.
C18_Witness ==
  /\ call.op = "download_map_sheets_by_wfs_ids"
  /\ call.outcome = "ok"
  /\ selected # <<>>
  /\ Len(selected) < Len(features)
  /\ PositionsOf(log, "merge") # {}

------------------------------------------------------------------------------
(* C19 *)

\* The positions whose tiles are in _tile_cache/ after the first k events:
\* download_tiles adds the tiles of its feature, rmtree removes everything.
RECURSIVE CacheAfter(_, _)
CacheAfter(events, k) ==
  IF k = 0 THEN {}
  ELSE IF events[k].ev = "download_tiles"
       THEN CacheAfter(events, k - 1) \cup { events[k].pos }
  ELSE IF events[k].ev = "rmtree" THEN {}
  ELSE CacheAfter(events, k - 1)

\* C19: in a download call, the tile cache is cleared right after each
\* merge, failed or not: every fetch starts with an empty cache, the cache
\* never holds the tiles of more than one feature, and it is empty when the
\* call ends.
C19_CacheClearedAfterEachFeature ==
  call.op \in DownloadOps =>
    /\ \A k \in 1..Len(log) :
         /\ Cardinality(CacheAfter(log, k)) <= 1
         /\ log[k].ev = "download_tiles" => CacheAfter(log, k - 1) = {}
         /\ log[k].ev = "merge" =>
              /\ k < Len(log)
              /\ log[k + 1].ev = "rmtree"
              /\ log[k + 1].pos = log[k].pos
    /\ CacheAfter(log, Len(log)) = {}

\* A call whose merge of one feature failed and which fetched the tiles of
\* a later feature.
C19_Witness ==
  /\ call.op \in DownloadOps
  /\ \E k \in 1..Len(log) :
       /\ log[k].ev = "merge"
       /\ ~ log[k].ok
       /\ \E j \in (k + 1)..Len(log) : log[j].ev = "download_tiles"

------------------------------------------------------------------------------
(* C20 *)

\* The first run of decimal digits after the first "Published" of the
\* title, whatever the case of its letters; <<>> when there is none.
FirstRunAfterPublished(title) ==
  LET word == <<"P","u","b","l","i","s","h","e","d">>
      starts == { s \in 1..Len(title) : MatchesAt(word, title, s) }
      after == SetMin(starts) + Len(word)
      digits == { i \in after..Len(title) : IsDigit(title[i]) }
  IN  IF starts = {} \/ digits = {} THEN <<>>
      ELSE SubSeq(title, SetMin(digits), RunEnd(title, SetMin(digits)))

\* C20: extract_published_dates returns, and sets the published_date of
\* every feature to the first decimal run after "Published" of its title,
\* and to the empty value when the title has none.
C20_PublishedDateIsTheFirstRun ==
  call.op = "extract_published_dates" =>
    /\ call.outcome = "ok"
    /\ \A i \in Positions :
         features[i].properties["published_date"] =
           IF FirstRunAfterPublished(features[i].properties.WFS_TITLE) = <<>>
           THEN <<>>
           ELSE << DecimalValue(FirstRunAfterPublished(features[i].properties.WFS_TITLE)) >>

------------------------------------------------------------------------------
(* C21 *)

\* C21: each of the four derivation flags only ever goes from false to
\* true, and polygons is true whenever grid_bbs is.
C21_FlagsOnlyRise ==
  [][ /\ polygons => polygons'
      /\ grid_bbs => grid_bbs'
      /\ wfs_id_nos => wfs_id_nos'
      /\ published_dates => published_dates'
      /\ grid_bbs' => polygons' ]_vars

\* All four flags are set, the last of them by a download.
C21_Witness ==
  /\ polygons /\ grid_bbs /\ wfs_id_nos /\ published_dates
  /\ call.op \in DownloadOps

------------------------------------------------------------------------------
(* C22 *)

\* C22: no download call changes found_queries; download_map_sheets_by_queries
\* on an index with grid_bbs raises ValueError when found_queries is empty,
\* and otherwise processes the features of found_queries, in their order.
C22_DownloadsKeepFoundQueries ==
  [][ call'.op \in DownloadOps =>
        /\ found_queries' = found_queries
        /\ (call'.op = "download_map_sheets_by_queries" /\ grid_bbs) =>
             IF found_queries = <<>>
             THEN call'.outcome = "ValueError" /\ log' = <<>>
             ELSE /\ call'.outcome = "ok"
                  /\ selected' = found_queries
                  /\ \A pos \in 1..Len(found_queries) :
                       \E k \in 1..Len(log') :
                         /\ log'[k].pos = pos
                         /\ log'[k].sheet = found_queries[pos]
                         /\ log'[k].ev \in {"skip", "download_tiles"} ]_vars

\* A download by query results that fetched the tiles of a found feature
\* and left other features of the catalog alone.
C22_Witness ==
  /\ call.op = "download_map_sheets_by_queries"
  /\ call.outcome = "ok"
  /\ selected = found_queries
  /\ Len(selected) < Len(features)
  /\ PositionsOf(log, "download_tiles") # {}

------------------------------------------------------------------------------
(* C23 *)

\* found_queries after the query that corresponds to the download call c,
\* run with append=False on the index fs.
QueryResult(fs, c) ==
  IF c.op = "download_map_sheets_by_wfs_ids"
  THEN append_matches(fs, wfs_matched(fs, c.args[1]), 1, Len(fs) + 1, <<>>, FALSE)
  ELSE IF c.op = "download_map_sheets_by_polygon"
  THEN append_matches(fs, polygon_matched(fs, c.args[1].value, c.args[2]), 1,
                      Len(fs) + 1, <<>>, c.args[2] = "within")
  ELSE IF c.op = "download_map_sheets_by_coordinates"
  THEN append_matches(fs, coords_matched(fs, Point(c.args[1].value)), 1,
                      Len(fs) + 1, <<>>, FALSE)
  ELSE IF c.op = "download_map_sheets_by_line"
  THEN append_matches(fs, line_matched(fs, c.args[1].value), 1,
                      Len(fs) + 1, <<>>, FALSE)
  ELSE append_matches(fs, string_matched(fields_to_search(fs, keys_of(c.args[2])),
                                         c.args[1].value),
                      1, Len(fs) + 1, <<>>, FALSE)

\* C23: the list a download by wfs ids, polygon, coordinates, line or
\* string selects is found_queries after the corresponding query with
\* append=False: the same features, in the same order, as many times.
C23_DownloadSelectsWhatQueryFinds ==
  [][ ( /\ call'.op \in DownloadOps \ { "download_all_map_sheets",
                                         "download_map_sheets_by_queries" }
        /\ call'.outcome = "ok" ) =>
        selected' = QueryResult(features', call') ]_vars

------------------------------------------------------------------------------
(* C24 *)

\* C24: in a download call the steps are strictly sequential: the fetch of
\* a feature is followed at once by its merge and the merge by the clearing
\* of the cache, the steps of a later position of the list come after those
\* of an earlier one, a feature's metadata is taken only after its cache
\* was cleared, and the metadata file is written last of all.
C24_StepsAreSequential ==
  call.op \in DownloadOps =>
    \A k \in 1..Len(log) :
      /\ log[k].ev = "download_tiles" =>
           /\ k + 2 <= Len(log)
           /\ log[k + 1].ev = "merge" /\ log[k + 1].pos = log[k].pos
           /\ log[k + 2].ev = "rmtree" /\ log[k + 2].pos = log[k].pos
      /\ log[k].ev \in {"merge", "rmtree"} =>
           \E j \in 1..(k - 1) :
             log[j].ev = "download_tiles" /\ log[j].pos = log[k].pos
      /\ log[k].ev = "save_metadata" =>
           /\ k > 1
           /\ log[k - 1].ev = "rmtree" /\ log[k - 1].pos = log[k].pos
      /\ log[k].ev = "to_csv" => k = Len(log)
      /\ \A j \in 1..(k - 1) :
           log[k].ev # "to_csv" =>
             \/ log[j].pos < log[k].pos
             \/ log[j].pos = log[k].pos /\ log[j].ev # "skip" /\ log[k].ev # "skip"

\* Two features were fetched, merged and cleared in one call, the first
\* without success, and the metadata file was written.
C24_Witness ==
  /\ call.op \in DownloadOps
  /\ Cardinality(PositionsOf(log, "rmtree")) >= 2
  /\ \E k \in 1..Len(log) : log[k].ev = "merge" /\ ~ log[k].ok /\ log[k].pos = 1
  /\ log[Len(log)].ev = "to_csv"
  /\ PositionsOf(log, "save_metadata") # {}

------------------------------------------------------------------------------
(* C25 *)

\* The names of the rows of the metadata file.
RowNames == { metadata_csv.lines[k].name :
                k \in { j \in 1..Len(metadata_csv.lines) : IsRow(metadata_csv.lines[j]) } }

\* C25: after a batch was stopped between two features, the metadata
\* file is a header followed by rows, and once a run of the same download
\* call has completed, every sheet whose file exists has a row in it.
C25_ResumedBatchHasEveryRow ==
  /\ \A k \in 1..Len(metadata_csv.lines) : IsRow(metadata_csv.lines[k]) <=> k > 1
  /\ (call.op = "download_all_map_sheets" /\ call.outcome = "ok") =>
       files \subseteq RowNames

------------------------------------------------------------------------------
(* C26 *)

\* C26: when no download call asks to overwrite, no sheet name is in more
\* than one row of the metadata file, also when a selected list holds a
\* feature, or two features of one IMAGE name, more than once.
C26_NoNameInTwoRows ==
  \A j, k \in 1..Len(metadata_csv.lines) :
    ( /\ j < k
      /\ IsRow(metadata_csv.lines[j])
      /\ IsRow(metadata_csv.lines[k]) ) =>
      metadata_csv.lines[j].name # metadata_csv.lines[k].name

\* A call whose list held two features of one file name: the first was
\* merged and has its row, the second was skipped.
C26_Witness ==
  /\ call.op \in DownloadOps
  /\ call.outcome = "ok"
  /\ \E p, q \in 1..Len(selected) :
       /\ p < q
       /\ ImageFile(features, selected[p]) = ImageFile(features, selected[q])
       /\ p \in MergedOk(log)
       /\ q \in Skipped(log)
       /\ ImageFile(features, selected[p]) \in RowNames

------------------------------------------------------------------------------
(* C27 *)

\* C27: a query or download call that raises ValueError or
\* NotImplementedError (a wrong argument type, an unknown mode, no grid
\* bounding boxes, a geometry out of bounds, no matching id, no query
\* results) leaves the four flags, found_queries, merged_polygon and the
\* features with their derived fields as they were.
C27_FailedCallChangesNothing ==
  [][ ( /\ call'.op \in QueryOps \cup DownloadOps
        /\ call'.outcome \in {"ValueError", "NotImplementedError"} ) =>
        /\ polygons' = polygons
        /\ grid_bbs' = grid_bbs
        /\ wfs_id_nos' = wfs_id_nos
        /\ published_dates' = published_dates
        /\ found_queries' = found_queries
        /\ merged_polygon' = merged_polygon
        /\ features' = features ]_vars

------------------------------------------------------------------------------
(* C28 *)

------------------------------------------------------------------------------
(* C29 *)

\* C29: after every call of AnnotationsLoader.load the loader's id_col,
\* patch_paths_col and label_col are the names that call was given, also when
\* an earlier load had set them to other names.
C29_LoadSetsTheColumnNames ==
  call.op = "load" =>
    /\ loader.id_col = call.args[2]
    /\ loader.patch_paths_col = call.args[3]
    /\ loader.label_col = call.args[4]

------------------------------------------------------------------------------
(* C30 *)

\* C30: after any sequence of calls of review_labels, reviewing the same
\* patches again included, no two rows of self.reviewed have the same value
\* in the column the review deduplicates on.
C30_ReviewedIsDeduplicated ==
  call.op = "review_labels" =>
    \A i, j \in 1..Len(loader.reviewed) :
      i # j => loader.reviewed[i].cells[call.args[2]]
                 # loader.reviewed[j].cells[call.args[2]]

====
